---------------------------- MODULE Spec2Model ----------------------------
(***************************************************************************)
(* Model of the BQ28Z610 driver: the AltManufacturerAccess block protocol, *)
(* the frame validator, and the data-flash accessors built on top of it.   *)
(*                                                                         *)
(* Byte arrays of the C++ code are sequences here: buf[i] of the source is *)
(* At(buf, i).  All byte arithmetic is reduced modulo 256.                 *)
(*                                                                         *)
(* A driver call is one action.  The bus traffic it produces is recorded   *)
(* in `bus`, the frames the device answered with in `resp`.  Loop hands    *)
(* control back to the sketch's loop(), which makes the next call.         *)
(***************************************************************************)
EXTENDS Integers, Sequences, FiniteSets, TLC

VARIABLES
  pc,         \* "idle": in loop(), "done": a driver call has just returned
  op,         \* name of the driver function that was called
  arg,        \* its arguments: [cmd, data, len]
  resp,       \* the 36-byte frames the device delivered, in order
  stack,      \* value of the bytes adjacent to a local frame buffer
  bus,        \* bus transactions issued by the call, in order
  ret,        \* the call's return value
  out,        \* caller's output buffer after the call
  outBefore,  \* caller's output buffer before the call
  outLen,     \* caller's *len after the call
  lenBefore,  \* caller's *len before the call
  mode,       \* <<m>> if the call obtained security mode m, <<>> if it did not ask
  ovf,        \* the call read or wrote past the end of a buffer
  wire,       \* what the I2C primitives did during the call's block read
  log,        \* what the call printed to Serial, as message tags
  twin,       \* the same call repeated under other logging flags
  sec,        \* device: security mode (SEC1, SEC0)
  flash,      \* device: data-flash bytes that have been written, by address
  lastWrite,  \* the latest data-flash write call: [op, addr, value]
  mfg,        \* device: ManufacturingStatus bits [FET_EN, CHG_TEST, DSG_TEST]
  devBefore,  \* device: [sec, mfg] when the call that just returned began
  SILENCE,    \* globals.h: do not print from the functions
  DEBUG,      \* globals.h: print extended info
  scanAddr,   \* dfReadAllData: the loop's 16-bit addr
  scanned     \* dfReadAllData: dfReadBytes calls made so far

vars == <<pc, op, arg, resp, stack, bus, ret, out, outBefore, outLen,
          lenBefore, mode, ovf, wire, log, twin, sec, flash, lastWrite,
          mfg, devBefore, SILENCE, DEBUG, scanAddr, scanned>>

\* What a driver call does not change: the device and the logging flags,
\* which every function that sets SILENCE restores before it returns.
env == <<sec, flash, lastWrite, mfg, devBefore, SILENCE, DEBUG, scanAddr, scanned>>

---------------------------------------------------------------------------
(* Program constants *)

FULL_ACCESS == 1
UNSEALED == 2
SEALED == 3

REQUEST_MAX_SIZE == 32
PAYLOAD_MAX_SIZE == REQUEST_MAX_SIZE
ADDR_SIZE == 2
CHECKSUM_SIZE == 1
LENGTH_SIZE == 1
CHECKSUM_AND_LENGTH_SIZE == CHECKSUM_SIZE + LENGTH_SIZE
SERVICE_SIZE == ADDR_SIZE + CHECKSUM_SIZE + LENGTH_SIZE
DATA_INDEX == 2
CHECKSUM_INDEX == 34
LENGTH_INDEX == 35
RESPONSE_MAX_SIZE == 36

ALT_MANUFACTURER_ACCESS == 62
MAC_DATA_CHECKSUM == 96
DEVICE_TYPE == 1
DEVICE_RESET == 18
CHG_FET == 31
DSG_FET == 32
GAUGE_EN == 33
FET_CONTROL == 34
LIFETIME_DATA_RESET == 40
PERMANENT_FAIL_DATA_RESET == 41
SEAL_DEVICE == 48
PF_ALERT == 82
MANUFACTURER_STATUS == 87
OPERATION_STATUS == 84
DF_ADDR_MIN == 16384
DF_ADDR_MAX == 24575
SEC0_n == 8
FET_EN_n == 4
DSG_TEST_n == 2
CHG_TEST_n == 1
FET_OPTIONS == 17920
CHGFET_n == 5
DEFAULT_UNSEAL_KEY == <<20, 4, 114, 54>>          \* 0x36720414, low byte first
DEFAULT_FULL_ACCESS_KEY == <<255, 255, 255, 255>>

---------------------------------------------------------------------------
(* Bounds of the model *)

MaxDataLen == 2      \* longest enumerated short byte array
MaxBufLen == 5       \* length of the buffers offered to composeValue
MaxPayload == 2      \* longest enumerated frame payload

---------------------------------------------------------------------------
(* Byte helpers *)

At(buf, i) == buf[i + 1]
LoByte(w) == w % 256
HiByte(w) == (w \div 256) % 256
Inv8(b) == 255 - (b % 256)
Fill(b, n) == [i \in 1..n |-> b]
Zeros(n) == Fill(0, n)

\* buf[i] for a 36-byte local frame buffer; an index past its end reads the
\* adjacent memory, whose bytes have the value s.
Rd(buf, s, i) == IF i < Len(buf) THEN At(buf, i) ELSE s

---------------------------------------------------------------------------
(* Bus transactions *)

W(b) == [t |-> "write", bytes |-> b, n |-> 0]
D(ms) == [t |-> "delay", bytes |-> <<>>, n |-> ms]
R(k) == [t |-> "read", bytes |-> <<>>, n |-> k]

Writes(io) == SelectSeq(io, LAMBDA x : x.t = "write")

RECURSIVE ReadTotal(_)
ReadTotal(io) == IF io = <<>> THEN 0
                 ELSE (IF Head(io).t = "read" THEN Head(io).n ELSE 0) + ReadTotal(Tail(io))

---------------------------------------------------------------------------
(* utils.cpp *)

_isRequestMinAllowed(len) == len > 0

_isAllowedRequestSize(len) ==
  IF ~_isRequestMinAllowed(len) THEN FALSE ELSE len <= REQUEST_MAX_SIZE

isAllowedRequestPayloadSize_Exclusive(len) ==
  IF ~_isRequestMinAllowed(len) THEN FALSE ELSE len < PAYLOAD_MAX_SIZE

isAllowedRequestPayloadSize(len) ==
  IF ~_isRequestMinAllowed(len) THEN FALSE ELSE len <= PAYLOAD_MAX_SIZE

\* sendCommand(byte command): the bytes put on the wire
sendCommand1(command) == <<command>>

\* sendCommand(byte reg, word command): register, then the word low byte first
sendCommand(reg, command) == <<reg, LoByte(command), HiByte(command)>>

\* sendData(reg, data, len)
sendData(reg, data, len) == <<reg>> \o SubSeq(data, 1, len)

\* requestBytes(buf, len): one read request of len bytes
requestBytes(len) == IF _isAllowedRequestSize(len) THEN <<R(len)>> ELSE <<>>

requestBlock ==
  requestBytes(ADDR_SIZE) \o requestBytes(PAYLOAD_MAX_SIZE)
    \o requestBytes(CHECKSUM_AND_LENGTH_SIZE)

\* The zeroed 36-byte buf after requestBlock(buf), when the device offers the
\* frame dev and the three requests deliver got[1], got[2] and got[3] bytes:
\* each request fills the head of its own part of buf.
BlockBuffer(dev, got) ==
  [i \in 1..RESPONSE_MAX_SIZE |->
     IF i <= ADDR_SIZE
     THEN (IF i <= got[1] THEN dev[i] ELSE 0)
     ELSE IF i <= ADDR_SIZE + PAYLOAD_MAX_SIZE
     THEN (IF i - ADDR_SIZE <= got[2] THEN dev[i] ELSE 0)
     ELSE (IF i - ADDR_SIZE - PAYLOAD_MAX_SIZE <= got[3] THEN dev[i] ELSE 0)]

\* byte sum = 0; for (i = 0; i < n; i++) sum += data[i];
\* The bytes past the end of data all read as s, so their part of the sum is
\* (n - Len(data)) * s.
RECURSIVE SumTo(_, _, _)
SumTo(data, s, n) ==
  IF n <= 0 THEN 0
  ELSE IF n > Len(data)
  THEN (SumTo(data, s, Len(data)) + (n - Len(data)) * s) % 256
  ELSE (SumTo(data, s, n - 1) + At(data, n - 1)) % 256

checksum_NoInvert(data, len) == SumTo(data, 0, len)

checksum(data, len) == Inv8(SumTo(data, 0, len))

validate(data, s) ==
  LET len == At(data, LENGTH_INDEX)
      sum == (At(data, CHECKSUM_INDEX) + SumTo(data, s, len - 2)) % 256
  IN  (sum % 256) # 0

composeWord_Swapped(buf, lsbIndex, littleEndian) ==
  LET msbIndex == lsbIndex + (IF littleEndian THEN 1 ELSE -1)
  IN  IF msbIndex < 0 THEN 0
      ELSE (At(buf, lsbIndex) * 256 + At(buf, msbIndex)) % 65536

composeWord(buf, lsbIndex, littleEndian) ==
  LET msbIndex == lsbIndex + (IF littleEndian THEN 1 ELSE -1)
  IN  IF msbIndex < 0 THEN 0
      ELSE (At(buf, msbIndex) * 256 + At(buf, lsbIndex)) % 65536

\* An unsigned 32-bit value is kept as its four bytes, least significant
\* first, so that the accumulator's width is explicit.
U32Zero == <<0, 0, 0, 0>>
U32Shl8(v) == <<0, v[1], v[2], v[3]>>

\* A local constant: F applied to the value of x, which is computed once.
Bind(x, F(_)) == CHOOSE r \in {F(v) : v \in {x}} : TRUE

RECURSIVE Or8(_, _, _)
Or8(a, b, k) ==
  IF k = 0 THEN 0
  ELSE (IF a % 2 = 1 \/ b % 2 = 1 THEN 1 ELSE 0) + 2 * Or8(a \div 2, b \div 2, k - 1)

U32OrByte(v, b) == <<Or8(v[1], b, 8), v[2], v[3], v[4]>>

\* (v >> n) & mask, for a field that lies within 24 bits of n
U32Field(v, n, mask) ==
  IF n < 8
  THEN ((v[1] + 256 * v[2] + 65536 * v[3]) \div (2 ^ n)) % (mask + 1)
  ELSE ((v[2] + 256 * v[3] + 65536 * v[4]) \div (2 ^ (n - 8))) % (mask + 1)

RECURSIVE composeLoop_NoShift(_, _, _, _)
composeLoop_NoShift(buf, i, from, acc) ==
  IF i < from THEN acc
  ELSE Bind(U32OrByte(acc, At(buf, i)), LAMBDA retval :
         composeLoop_NoShift(buf, i - 1, from, retval))

\* for (i = till; i >= from; i--) { retval = retval << 8; retval |= buf[i]; }
RECURSIVE composeLoop(_, _, _, _)
composeLoop(buf, i, from, acc) ==
  IF i < from THEN acc
  ELSE Bind(U32OrByte(U32Shl8(acc), At(buf, i)), LAMBDA retval :
         composeLoop(buf, i - 1, from, retval))

\* composeValue(buf, from, till); g is the value an invalid range yields
\* (the function returns without a value there).
composeValue(buf, from, till, g) ==
  IF till <= from THEN g ELSE composeLoop(buf, till, from, U32Zero)

composeDoubleWord(buf) == composeValue(buf, 0, 3, U32Zero)

---------------------------------------------------------------------------
(* alt_manufacturer_access.cpp *)

\* The caller's buffer after  for (i = 0; i < _len; i++) retval[i] = buf[2 + i];
CopyPayload(retval, buf, s, _len) ==
  [i \in 1..Len(retval) |->
     IF i - 1 < _len THEN Rd(buf, s, DATA_INDEX + i - 1) ELSE retval[i]]

\* Variant that gives up the bare address write before the block read.
AltManufacturerAccess_NoPointer(MACSubcmd, retval, len, frame, s) ==
  LET buf == frame
      io == <<W(sendCommand(ALT_MANUFACTURER_ACCESS, MACSubcmd)), D(5)>>
              \o requestBlock
      _len == At(buf, LENGTH_INDEX) - SERVICE_SIZE
  IN  Bind(validate(buf, s), LAMBDA isDataValid :
        [ret |-> isDataValid,
         retval |-> IF isDataValid THEN CopyPayload(retval, buf, s, _len) ELSE retval,
         len |-> IF isDataValid THEN _len % 256 ELSE len,
         ovf |-> \/ At(buf, LENGTH_INDEX) - 2 > Len(buf)
                 \/ isDataValid /\ (_len > Len(retval) \/ DATA_INDEX + _len > Len(buf)),
         bus |-> io])

\* Variant that reports the length byte even for a rejected frame.
AltManufacturerAccess_LenAlways(MACSubcmd, retval, len, frame, s) ==
  LET buf == frame
      io == <<W(sendCommand(ALT_MANUFACTURER_ACCESS, MACSubcmd)), D(5),
              W(sendCommand1(ALT_MANUFACTURER_ACCESS))>> \o requestBlock
      _len == At(buf, LENGTH_INDEX) - SERVICE_SIZE
  IN  Bind(validate(buf, s), LAMBDA isDataValid :
        [ret |-> isDataValid,
         retval |-> IF isDataValid THEN CopyPayload(retval, buf, s, _len) ELSE retval,
         len |-> _len % 256,
         ovf |-> \/ At(buf, LENGTH_INDEX) - 2 > Len(buf)
                 \/ isDataValid /\ (_len > Len(retval) \/ DATA_INDEX + _len > Len(buf)),
         bus |-> io])

\* bool AltManufacturerAccess(MACSubcmd, retval, len): frame is what the
\* three read requests of requestBlock put into the zeroed local buf.
\* ovf: validate's loop left the 36-byte buf, or the copy loop left buf or the
\* caller's retval.
AltManufacturerAccess(MACSubcmd, retval, len, frame, s) ==
  LET buf == frame
      io == <<W(sendCommand(ALT_MANUFACTURER_ACCESS, MACSubcmd)), D(5),
              W(sendCommand1(ALT_MANUFACTURER_ACCESS))>> \o requestBlock
      _len == At(buf, LENGTH_INDEX) - SERVICE_SIZE
  IN  Bind(validate(buf, s), LAMBDA isDataValid :
        [ret |-> isDataValid,
         retval |-> IF isDataValid THEN CopyPayload(retval, buf, s, _len) ELSE retval,
         len |-> IF isDataValid THEN _len % 256 ELSE len,
         ovf |-> \/ At(buf, LENGTH_INDEX) - 2 > Len(buf)
                 \/ isDataValid /\ (_len > Len(retval) \/ DATA_INDEX + _len > Len(buf)),
         bus |-> io])

\* word DeviceType()
DeviceType(frame, s) ==
  Bind(AltManufacturerAccess(DEVICE_TYPE, Zeros(RESPONSE_MAX_SIZE), 0, frame, s),
       LAMBDA a :
         [ret |-> IF ~a.ret THEN 0 ELSE composeWord(a.retval, 0, TRUE),
          retval |-> a.retval, len |-> a.len, ovf |-> a.ovf, bus |-> a.bus])

\* u32 OperationStatus(): g is the value produced when the function returns
\* without one (block read rejected).
OperationStatus(frame, s, g) ==
  Bind(AltManufacturerAccess(OPERATION_STATUS, Zeros(RESPONSE_MAX_SIZE), 0, frame, s),
       LAMBDA a :
         [ret |-> IF ~a.ret THEN g ELSE composeDoubleWord(a.retval),
          ovf |-> a.ovf, bus |-> a.bus])

\* u32 SafetyStatus(): g as in OperationStatus.
SafetyStatus(frame, s, g) ==
  Bind(AltManufacturerAccess(PF_ALERT, Zeros(RESPONSE_MAX_SIZE), 0, frame, s),
       LAMBDA a :
         [ret |-> IF ~a.ret THEN g ELSE composeDoubleWord(a.retval),
          ovf |-> a.ovf, bus |-> a.bus])

\* u32 PFAlert()
PFAlert(frame, s, g) ==
  Bind(AltManufacturerAccess(PF_ALERT, Zeros(RESPONSE_MAX_SIZE), 0, frame, s),
       LAMBDA a :
         [ret |-> IF ~a.ret THEN g ELSE composeDoubleWord(a.retval),
          ovf |-> a.ovf, bus |-> a.bus])

\* word ManufacturingStatus(): g is the value produced when the function
\* returns without one (block read rejected).
ManufacturingStatus(frame, s, g) ==
  Bind(AltManufacturerAccess(MANUFACTURER_STATUS, Zeros(RESPONSE_MAX_SIZE), 0, frame, s),
       LAMBDA a :
         [ret |-> IF ~a.ret THEN g ELSE composeWord(a.retval, 0, TRUE),
          ovf |-> a.ovf, bus |-> a.bus])

\* void AltManufacturerAccess(MACSubcmd): the sub-command is sent, nothing
\* is read back.
AltManufacturerAccess1(MACSubcmd) ==
  <<W(sendCommand(ALT_MANUFACTURER_ACCESS, MACSubcmd))>>

DeviceReset == AltManufacturerAccess1(DEVICE_RESET) \o <<D(500)>>
ChargeFET == AltManufacturerAccess1(CHG_FET) \o <<D(500)>>
DischargeFET == AltManufacturerAccess1(DSG_FET) \o <<D(500)>>
Gauging == AltManufacturerAccess1(GAUGE_EN) \o <<D(500)>>
FETControl == AltManufacturerAccess1(FET_CONTROL) \o <<D(500)>>
LifetimeDataReset == AltManufacturerAccess1(LIFETIME_DATA_RESET)

\* Variant that waits as long as its neighbours do.
PermanentFailureDataReset_HalfSecond ==
  AltManufacturerAccess1(PERMANENT_FAIL_DATA_RESET) \o <<D(500)>>

PermanentFailureDataReset ==
  AltManufacturerAccess1(PERMANENT_FAIL_DATA_RESET) \o <<D(1000)>>

SealDevice == AltManufacturerAccess1(SEAL_DEVICE) \o <<D(500)>>

---------------------------------------------------------------------------
(* service.cpp *)

\* Variant that sends the high word of the key first.
unsealDevice_HighFirst(key) ==
  <<W(sendCommand(ALT_MANUFACTURER_ACCESS, key[3] + 256 * key[4])),
    D(5),
    W(sendCommand(ALT_MANUFACTURER_ACCESS, key[1] + 256 * key[2])),
    D(1000)>>

\* void unsealDevice(u32 key): key & 0xFFFF, then (key >> 16) & 0xFFFF
unsealDevice(key) ==
  <<W(sendCommand(ALT_MANUFACTURER_ACCESS, key[1] + 256 * key[2])),
    D(5),
    W(sendCommand(ALT_MANUFACTURER_ACCESS, key[3] + 256 * key[4])),
    D(1000)>>

\* void fullAccessDevice(u32 key)
fullAccessDevice(key) == unsealDevice(key)

\* mode when securityMode() was not called; <<m>> when it returned m
NotRead == <<>>

\* int securityMode(); what it prints is not modelled.
securityMode(frame, s, g) ==
  Bind(OperationStatus(frame, s, g), LAMBDA o :
    [ret |-> U32Field(o.ret, SEC0_n, 3), ovf |-> o.ovf, bus |-> o.bus])

\* Arduino's bitRead(value, bit), as a bool
bitRead(value, n) == (value \div (2 ^ n)) % 2 = 1

\* Variant that toggles whatever ManufacturingStatus said.
fetControl_Always(fetMode, r1, r2, s, g1, g2) ==
  Bind(ManufacturingStatus(r1, s, g1), LAMBDA ms :
    Bind(securityMode(r2, s, g2), LAMBDA sm :
      LET sealed == (SEALED = sm.ret)
      IN  [bus |-> ms.bus \o sm.bus
                     \o (IF sealed THEN unsealDevice(DEFAULT_UNSEAL_KEY) ELSE <<>>)
                     \o FETControl
                     \o (IF sealed THEN SealDevice ELSE <<>>),
           resp |-> <<r1, r2>>, mode |-> <<sm.ret>>, ovf |-> ms.ovf \/ sm.ovf]))

\* void fetControl(bool mode): r1 answers the ManufacturingStatus read, r2
\* the OperationStatus read of securityMode(); g1 and g2 are the values
\* these produce when they return without one.
fetControl(fetMode, r1, r2, s, g1, g2) ==
  Bind(ManufacturingStatus(r1, s, g1), LAMBDA ms :
    IF bitRead(ms.ret, FET_EN_n) = fetMode
    THEN [bus |-> ms.bus, resp |-> <<r1>>, mode |-> NotRead, ovf |-> ms.ovf]
    ELSE Bind(securityMode(r2, s, g2), LAMBDA sm :
           LET sealed == (SEALED = sm.ret)
           IN  [bus |-> ms.bus \o sm.bus
                          \o (IF sealed THEN unsealDevice(DEFAULT_UNSEAL_KEY) ELSE <<>>)
                          \o FETControl
                          \o (IF sealed THEN SealDevice ELSE <<>>),
                resp |-> <<r1, r2>>, mode |-> <<sm.ret>>,
                ovf |-> ms.ovf \/ sm.ovf]))

\* manufactoryChargeFet and manufactoryDischargeFet differ in the bit they
\* read (bit_n) and the command they send (toggle).
manufactoryFet(bit_n, toggle, fetMode, r1, r2, s, g1, g2) ==
  Bind(ManufacturingStatus(r1, s, g1), LAMBDA ms :
    LET fet == bitRead(ms.ret, bit_n)
        fetEn == bitRead(ms.ret, FET_EN_n)
        io == ms.bus \o (IF fetEn THEN FETControl ELSE <<>>)
    IN  IF fet = fetMode
        THEN [bus |-> io, resp |-> <<r1>>, mode |-> NotRead, ovf |-> ms.ovf]
        ELSE Bind(securityMode(r2, s, g2), LAMBDA sm :
               [bus |-> io \o sm.bus
                          \o (IF SEALED = sm.ret
                              THEN unsealDevice(DEFAULT_UNSEAL_KEY) ELSE <<>>)
                          \o toggle,
                resp |-> <<r1, r2>>, mode |-> <<sm.ret>>,
                ovf |-> ms.ovf \/ sm.ovf]))

\* void manufactoryChargeFet(bool mode)
manufactoryChargeFet(fetMode, r1, r2, s, g1, g2) ==
  manufactoryFet(CHG_TEST_n, ChargeFET, fetMode, r1, r2, s, g1, g2)

\* void manufactoryDischargeFet(bool mode)
manufactoryDischargeFet(fetMode, r1, r2, s, g1, g2) ==
  manufactoryFet(DSG_TEST_n, DischargeFET, fetMode, r1, r2, s, g1, g2)

---------------------------------------------------------------------------
(* data_flash_access.cpp *)

_isAddrValid_Exclusive(addr) == DF_ADDR_MIN < addr /\ addr <= DF_ADDR_MAX

_isAddrValid(addr) == DF_ADDR_MIN <= addr /\ addr <= DF_ADDR_MAX

\* bool _isDeviceSealed()
_isDeviceSealed(frame, s, g) ==
  Bind(securityMode(frame, s, g), LAMBDA m :
    [ret |-> (SEALED = m.ret), mode |-> <<m.ret>>, ovf |-> m.ovf, bus |-> m.bus])

\* The caller's buffer after  for (i = 0; i < len; i++) retval[i] = buf[i];
CopyOut(retval, buf, len) ==
  [i \in 1..Len(retval) |-> IF i - 1 < len THEN At(buf, i - 1) ELSE retval[i]]

\* dfReadBytes once the sealed check said "not sealed".
ReadPhase(addr, retval, len, sealed, r1, r2, s) ==
  Bind(AltManufacturerAccess(addr, Zeros(RESPONSE_MAX_SIZE), 0, r2, s), LAMBDA a :
    IF ~a.ret
    THEN [retval |-> retval, ovf |-> sealed.ovf \/ a.ovf, bus |-> sealed.bus \o a.bus,
          resp |-> <<r1, r2>>, mode |-> sealed.mode]
    ELSE [retval |-> CopyOut(retval, a.retval, len),
          ovf |-> sealed.ovf \/ a.ovf, bus |-> sealed.bus \o a.bus,
          resp |-> <<r1, r2>>, mode |-> sealed.mode])

\* Variant that asks for the security mode before looking at the arguments.
dfReadBytes_SealedFirst(addr, retval, len, r1, r2, s, g) ==
  Bind(_isDeviceSealed(r1, s, g), LAMBDA sealed :
    IF sealed.ret \/ ~_isAddrValid(addr) \/ ~isAllowedRequestPayloadSize(len)
    THEN [retval |-> retval, ovf |-> sealed.ovf, bus |-> sealed.bus,
          resp |-> <<r1>>, mode |-> sealed.mode]
    ELSE ReadPhase(addr, retval, len, sealed, r1, r2, s))

\* void dfReadBytes(addr, retval, len): r1 answers the OperationStatus read of
\* the sealed check, r2 the read of addr.
dfReadBytes(addr, retval, len, r1, r2, s, g) ==
  IF ~_isAddrValid(addr) \/ ~isAllowedRequestPayloadSize(len)
  THEN [retval |-> retval, ovf |-> FALSE, bus |-> <<>>, resp |-> <<>>,
        mode |-> NotRead]
  ELSE Bind(_isDeviceSealed(r1, s, g), LAMBDA sealed :
         IF sealed.ret
         THEN [retval |-> retval, ovf |-> sealed.ovf, bus |-> sealed.bus,
               resp |-> <<r1>>, mode |-> sealed.mode]
         ELSE ReadPhase(addr, retval, len, sealed, r1, r2, s))

\* void dfReadAllData(): the block size, the loop's condition and its step on
\* the 16-bit addr.
DATA_SIZE == PAYLOAD_MAX_SIZE

\* Variant that stops one block early.
dfReadAllData_ContinueExclusive(a) ==
  a < (DF_ADDR_MAX - DATA_SIZE + 1) % 65536

dfReadAllData_Continue(a) ==
  a <= (DF_ADDR_MAX - DATA_SIZE + 1) % 65536

dfReadAllData_Step(a) == (a + DATA_SIZE) % 65536

\* Variant whose length byte counts the address and the data only.
WritePhase_ShortLength(addr, data, len) ==
  LET buf == <<LoByte(addr), HiByte(addr)>> \o SubSeq(data, 1, len)
      _checksum == checksum(buf, Len(buf))
      _length == (len + ADDR_SIZE) % 256
      checksumAndLength == <<_checksum, _length>>
  IN  <<W(sendData(ALT_MANUFACTURER_ACCESS, buf, Len(buf))),
        W(sendData(MAC_DATA_CHECKSUM, checksumAndLength, 2)),
        D(200)>>

\* The write phase of dfWriteBytes: address + data, then checksum + length.
WritePhase(addr, data, len) ==
  LET buf == <<LoByte(addr), HiByte(addr)>> \o SubSeq(data, 1, len)
      _checksum == checksum(buf, Len(buf))
      _length == (len + SERVICE_SIZE) % 256
      checksumAndLength == <<_checksum, _length>>
  IN  <<W(sendData(ALT_MANUFACTURER_ACCESS, buf, Len(buf))),
        W(sendData(MAC_DATA_CHECKSUM, checksumAndLength, 2)),
        D(200)>>

\* Variant that leaves the sealed check's traffic out of the call.
dfWriteBytes_Unchecked(addr, data, len, r1, s, g) ==
  IF ~_isAddrValid(addr) \/ ~isAllowedRequestPayloadSize(len)
  THEN [ovf |-> FALSE, bus |-> <<>>, resp |-> <<>>, mode |-> NotRead]
  ELSE Bind(_isDeviceSealed(r1, s, g), LAMBDA sealed :
         IF sealed.ret
         THEN [ovf |-> sealed.ovf, bus |-> sealed.bus, resp |-> <<r1>>,
               mode |-> sealed.mode]
         ELSE [ovf |-> sealed.ovf, bus |-> WritePhase(addr, data, len),
               resp |-> <<r1>>, mode |-> sealed.mode])

\* void dfWriteBytes(addr, data, len): r1 answers the OperationStatus read of
\* the sealed check.
dfWriteBytes(addr, data, len, r1, s, g) ==
  IF ~_isAddrValid(addr) \/ ~isAllowedRequestPayloadSize(len)
  THEN [ovf |-> FALSE, bus |-> <<>>, resp |-> <<>>, mode |-> NotRead]
  ELSE Bind(_isDeviceSealed(r1, s, g), LAMBDA sealed :
         IF sealed.ret
         THEN [ovf |-> sealed.ovf, bus |-> sealed.bus, resp |-> <<r1>>,
               mode |-> sealed.mode]
         ELSE [ovf |-> sealed.ovf,
               bus |-> sealed.bus \o WritePhase(addr, data, len),
               resp |-> <<r1>>, mode |-> sealed.mode])

\* byte dfReadByte(addr)
dfReadByte(addr, r1, r2, s, g) ==
  Bind(dfReadBytes(addr, <<0>>, 1, r1, r2, s, g), LAMBDA r :
    [ret |-> At(r.retval, 0), ovf |-> r.ovf, bus |-> r.bus, resp |-> r.resp,
     mode |-> r.mode])

\* void dfWriteByte(addr, value)
dfWriteByte(addr, value, r1, s, g) ==
  dfWriteBytes(addr, <<value>>, 1, r1, s, g)

\* Arduino's bitWrite(value, bit, bitvalue): the new value
bitWrite(value, n, bitvalue) ==
  IF bitvalue
  THEN (IF bitRead(value, n) THEN value ELSE value + 2 ^ n)
  ELSE (IF bitRead(value, n) THEN value - 2 ^ n ELSE value)

\* void dfWriteFetOptionsCHGFET(chgFetBitValue): r1 and r2 answer the sealed
\* check and the read of dfReadByte, r3 the sealed check of dfWriteByte.
dfWriteFetOptionsCHGFET(chgFetBitValue, r1, r2, r3, s, g1, g3) ==
  Bind(dfReadByte(FET_OPTIONS, r1, r2, s, g1), LAMBDA rd :
    Bind(bitWrite(rd.ret, CHGFET_n, chgFetBitValue), LAMBDA fetOptions :
      Bind(dfWriteByte(FET_OPTIONS, fetOptions, r3, s, g3), LAMBDA wr :
        [fetOptions |-> fetOptions, ovf |-> rd.ovf \/ wr.ovf,
         bus |-> rd.bus \o wr.bus, resp |-> rd.resp \o wr.resp,
         mode |-> wr.mode])))

\* word dfReadWord(addr)
dfReadWord(addr, r1, r2, s, g) ==
  Bind(dfReadBytes(addr, <<0, 0>>, 2, r1, r2, s, g), LAMBDA r :
    [ret |-> composeWord(r.retval, 0, TRUE), ovf |-> r.ovf, bus |-> r.bus,
     resp |-> r.resp, mode |-> r.mode])

\* Variant that sends the high byte first.
dfWriteWord_BigEndian(addr, value, r1, s, g) ==
  LET data == <<HiByte(value), LoByte(value)>>
  IN  dfWriteBytes(addr, data, 2, r1, s, g)

\* void dfWriteWord(addr, value)
dfWriteWord(addr, value, r1, s, g) ==
  LET data == <<LoByte(value), HiByte(value)>>
  IN  dfWriteBytes(addr, data, 2, r1, s, g)

\* The characters String(str) takes from str: up to the first NUL; when str
\* holds none, the characters that follow it in memory (value s) until one.
RECURSIVE CString(_, _)
CString(str, s) ==
  IF str = <<>> THEN (IF s = 0 THEN <<>> ELSE <<s>>)
  ELSE IF Head(str) = 0 THEN <<>>
  ELSE <<Head(str)>> \o CString(Tail(str), s)

\* String dfReadString(addr): gs is the String an invalid address yields (the
\* function returns without a value there).
dfReadString(addr, r2, s, gs) ==
  IF ~_isAddrValid(addr)
  THEN [ret |-> gs, ovf |-> FALSE, bus |-> <<>>, resp |-> <<>>]
  ELSE Bind(AltManufacturerAccess(addr, Zeros(RESPONSE_MAX_SIZE), 0, r2, s), LAMBDA a :
         LET buf == a.retval
             str_len == At(buf, 0)
             str == [i \in 1..(str_len + 1) |-> Rd(buf, s, i)]
         IN  IF ~a.ret
             THEN [ret |-> <<>>, ovf |-> a.ovf, bus |-> a.bus, resp |-> <<r2>>]
             ELSE [ret |-> CString(str, s),
                   ovf |-> a.ovf \/ str_len + 1 >= Len(buf),
                   bus |-> a.bus, resp |-> <<r2>>])

---------------------------------------------------------------------------
(* Inputs: arguments of the calls and answers of the device *)

Seqs(S, n) == UNION {[1..k -> S] : k \in 0..n}
Min(a, b) == IF a < b THEN a ELSE b

DataVals == {0, 100, 255}
PayloadVals == {0, 16, 38}
StackVals == {0, 165}
GarbageU32 == {<<0, 0, 0, 0>>, <<0, 1, 0, 0>>, <<0, 2, 0, 0>>, <<255, 255, 255, 255>>}
GarbageString == {<<>>, <<63>>}
LenBytes == {0, 3, 4, 6, 36, 38, 39, 255}
AddrInputs == {16383, 16384, 17962, 24575, 24576, 65535}
SubcmdInputs == {DEVICE_TYPE, 17962}
OpStatusOther == {0, 1030}

\* int len of isAllowedRequestPayloadSize: around both limits, and the ends of
\* the 16-bit int.
LenInputs == (-2..34) \cup {-32768, 32767}

\* Buffers and index pairs for composeWord: every pair whose two indices lie
\* in the buffer, and lsbIndex = 0 big-endian, for which no index does (also
\* offered with no buffer at all).
ByteVals == {0, 17, 34, 255}
WordBufs == [1..3 -> ByteVals]
WordCalls ==
  {[data |-> b, lsbIndex |-> i, littleEndian |-> TRUE] : b \in WordBufs, i \in 0..1} \cup
  {[data |-> b, lsbIndex |-> i, littleEndian |-> FALSE] : b \in WordBufs, i \in 0..2} \cup
  {[data |-> <<>>, lsbIndex |-> 0, littleEndian |-> FALSE]}

\* Buffers and ranges for composeValue: ranges inside the buffer, up to one
\* byte more than the accumulator holds, and ranges with till <= from.
ValueVals == {0, 18, 255}
ValueBufs == [1..MaxBufLen -> ValueVals] \cup {<<17, 34, 51, 68>>}
ValueRanges(b) == {r \in (0..Len(b) - 1) \X (0..Len(b) - 1) : r[1] < r[2]}
BadRanges == {<<0, 0>>, <<2, 1>>}

\* A 36-byte frame: echoed sub-command, payload p, zero padding, checksum c
\* at index 34, length l at index 35.
MkFrame(cmd, p, c, l) ==
  [i \in 1..RESPONSE_MAX_SIZE |->
     IF i = 1 THEN LoByte(cmd)
     ELSE IF i = 2 THEN HiByte(cmd)
     ELSE IF i - 2 <= Len(p) THEN p[i - 2]
     ELSE IF i = CHECKSUM_INDEX + 1 THEN c
     ELSE IF i = LENGTH_INDEX + 1 THEN l
     ELSE 0]

\* The checksum the device computes: complement of the sum of the l - 2 bytes
\* in front of the trailer.
GoodChk(cmd, p, l) ==
  Inv8(SumTo(MkFrame(cmd, p, 0, l), 0, Min(l - 2, CHECKSUM_INDEX)))

\* The frame a healthy device answers with for payload p.
DeviceFrame(cmd, p) ==
  MkFrame(cmd, p, GoodChk(cmd, p, Len(p) + SERVICE_SIZE), Len(p) + SERVICE_SIZE)

Frames(cmd) ==
  {Zeros(RESPONSE_MAX_SIZE)} \cup
  UNION {UNION {{MkFrame(cmd, p, c, l) :
                   c \in {GoodChk(cmd, p, l), (GoodChk(cmd, p, l) + 1) % 256, 0}} :
                l \in LenBytes} :
         p \in Seqs(PayloadVals, MaxPayload)}

\* Frames offered to the data-flash readers: healthy answers, an all-zero
\* frame, and frames whose length byte is outside the protocol's range.
DfFrames(cmd) ==
  {Zeros(RESPONSE_MAX_SIZE)} \cup
  {DeviceFrame(cmd, p) : p \in Seqs(PayloadVals, MaxPayload)} \cup
  {MkFrame(cmd, p, 1, l) : p \in {<<>>, <<16, 38>>}, l \in {0, 255}}

\* Healthy answers that hold a length-prefixed string: "A" followed by
\* another byte, "AB" followed by zeros, the empty string followed by a byte,
\* and a length byte that reaches past the payload.
StringFrames(cmd) ==
  {DeviceFrame(cmd, p) : p \in {<<1, 65, 66>>, <<2, 65, 66>>, <<0, 65>>, <<35>>}}

U32Bytes(v) ==
  <<v % 256, (v \div 256) % 256, (v \div 65536) % 256, (v \div 16777216) % 256>>

\* Answers to the OperationStatus read of a device in security mode m.
OpFrames(m) ==
  {Zeros(RESPONSE_MAX_SIZE), MkFrame(OPERATION_STATUS, <<>>, 1, 0)} \cup
  {DeviceFrame(OPERATION_STATUS, U32Bytes(m * 256 + o)) : o \in OpStatusOther}

\* Every write acknowledged, every read request answered in full.
NoFault == [acks |-> <<0, 0>>, got |-> <<ADDR_SIZE, PAYLOAD_MAX_SIZE, CHECKSUM_AND_LENGTH_SIZE>>]

\* Outcomes of the I2C primitives during one block read: acks are the values
\* Wire.endTransmission() returned for the two command writes (0: success,
\* 2: address not acknowledged, 3: data not acknowledged), got the number of
\* bytes each of the three read requests delivered.
Faults ==
  {NoFault,
   [acks |-> <<3, 0>>, got |-> NoFault.got],
   [acks |-> <<0, 3>>, got |-> NoFault.got],
   [acks |-> <<2, 2>>, got |-> <<0, 0, 0>>],
   [acks |-> <<0, 0>>, got |-> <<2, 32, 0>>],
   [acks |-> <<0, 0>>, got |-> <<2, 32, 1>>]}

\* The values OperationStatus() can produce for answer r1.
GarbageFor(r1, s) == IF validate(r1, s) THEN {U32Zero} ELSE GarbageU32


---------------------------------------------------------------------------
(* The state machine *)

NoArg == [cmd |-> 0, data |-> <<>>, len |-> 0]
Pattern(n) == Fill(170, n)

NoTwin == <<>>
MfgStates == [FET_EN : {0, 1}, CHG_TEST : {0, 1}, DSG_TEST : {0, 1}]
NoWrite == [op |-> "none", addr |-> 0, value |-> 0]
Erased == <<>>

\* The state the calls are made from.  SILENCE and DEBUG are globals the
\* sketch defines; without an initialiser they start as false.
Start ==
  /\ pc = "idle"
  /\ op = "none"
  /\ arg = NoArg
  /\ resp = <<>>
  /\ stack = 0
  /\ bus = <<>>
  /\ ret = 0
  /\ out = <<>>
  /\ outBefore = <<>>
  /\ outLen = 0
  /\ lenBefore = 0
  /\ mode = NotRead
  /\ ovf = FALSE
  /\ wire = NoFault
  /\ log = <<>>
  /\ twin = NoTwin
  /\ scanAddr = 0
  /\ scanned = 0
  /\ sec \in {FULL_ACCESS, UNSEALED, SEALED}
  /\ flash = Erased
  /\ lastWrite = NoWrite

\* The device with all three manufacturing bits clear.
FetsOff ==
  /\ mfg = [FET_EN |-> 0, CHG_TEST |-> 0, DSG_TEST |-> 0]
  /\ devBefore = [sec |-> sec, mfg |-> mfg]

Init ==
  /\ Start
  /\ FetsOff
  /\ SILENCE = FALSE
  /\ DEBUG = FALSE

\* A call returns: what it did becomes observable.
Observe(name, a, frames, s, io, r, o, ob, ol, lb, m, ov, w, lg, tw) ==
  /\ op' = name
  /\ arg' = a
  /\ resp' = frames
  /\ stack' = s
  /\ bus' = io
  /\ ret' = r
  /\ out' = o
  /\ outBefore' = ob
  /\ outLen' = ol
  /\ lenBefore' = lb
  /\ mode' = m
  /\ ovf' = ov
  /\ wire' = w
  /\ log' = lg
  /\ twin' = tw

ReturnIO(name, a, frames, s, io, r, o, ob, ol, lb, m, ov, w, lg, tw) ==
  /\ pc' = "done"
  /\ Observe(name, a, frames, s, io, r, o, ob, ol, lb, m, ov, w, lg, tw)

Return(name, a, frames, s, io, r, o, ob, ol, lb, m, ov) ==
  ReturnIO(name, a, frames, s, io, r, o, ob, ol, lb, m, ov, NoFault, <<>>, NoTwin)

Call_checksum ==
  /\ pc = "idle"
  /\ \E data \in Seqs(DataVals, MaxDataLen + 1) : \E len \in 0..Len(data) :
       Return("checksum", [cmd |-> 0, data |-> data, len |-> len], <<>>, 0, <<>>,
              checksum(data, len), <<>>, <<>>, 0, 0, NotRead, FALSE)
  /\ UNCHANGED env

Call_isAllowedRequestPayloadSize ==
  /\ pc = "idle"
  /\ \E len \in LenInputs :
       Return("isAllowedRequestPayloadSize", [cmd |-> 0, data |-> <<>>, len |-> len],
              <<>>, 0, <<>>, isAllowedRequestPayloadSize(len), <<>>, <<>>, 0, 0,
              NotRead, FALSE)
  /\ UNCHANGED env

Call__isAddrValid ==
  /\ pc = "idle"
  /\ \E addr \in AddrInputs \cup {0} :
       Return("_isAddrValid", [cmd |-> addr, data |-> <<>>, len |-> 0],
              <<>>, 0, <<>>, _isAddrValid(addr), <<>>, <<>>, 0, 0, NotRead, FALSE)
  /\ UNCHANGED env

Call_composeWord ==
  /\ pc = "idle"
  /\ \E c \in WordCalls :
       Return("composeWord",
              [cmd |-> 0, data |-> c.data, len |-> 0, lsbIndex |-> c.lsbIndex,
               littleEndian |-> c.littleEndian],
              <<>>, 0, <<>>, composeWord(c.data, c.lsbIndex, c.littleEndian),
              <<>>, <<>>, 0, 0, NotRead, FALSE)
  /\ UNCHANGED env

\* With till <= from the function returns without a value: g is what the
\* caller then finds.
Call_composeValue ==
  /\ pc = "idle"
  /\ \E b \in ValueBufs : \E r \in ValueRanges(b) \cup BadRanges :
     \E g \in (IF r[2] <= r[1] THEN GarbageU32 ELSE {U32Zero}) :
       Return("composeValue",
              [cmd |-> 0, data |-> b, len |-> 0, from |-> r[1], till |-> r[2]],
              <<>>, 0, <<>>, composeValue(b, r[1], r[2], g),
              <<>>, <<>>, 0, 0, NotRead, FALSE)
  /\ UNCHANGED env

Call_composeDoubleWord ==
  /\ pc = "idle"
  /\ \E b \in ValueBufs :
       Return("composeDoubleWord", [cmd |-> 0, data |-> b, len |-> 0],
              <<>>, 0, <<>>, composeDoubleWord(b), <<>>, <<>>, 0, 0, NotRead, FALSE)
  /\ UNCHANGED env

Call_validate ==
  /\ pc = "idle"
  /\ \E cmd \in SubcmdInputs : \E frame \in Frames(cmd) : \E s \in StackVals :
       Return("validate", NoArg, <<frame>>, s, <<>>, validate(frame, s),
              <<>>, <<>>, 0, 0, NotRead,
              At(frame, LENGTH_INDEX) - 2 > RESPONSE_MAX_SIZE)
  /\ UNCHANGED env

Call_AltManufacturerAccess ==
  /\ pc = "idle"
  /\ \E cmd \in SubcmdInputs : \E dev \in Frames(cmd) : \E s \in StackVals :
     \E len0 \in {0, 7} : \E w \in Faults :
       LET before == Pattern(RESPONSE_MAX_SIZE) IN
       \E frame \in {BlockBuffer(dev, w.got)} :
       \E a \in {AltManufacturerAccess(cmd, before, len0, frame, s)} :
           ReturnIO("AltManufacturerAccess", [cmd |-> cmd, data |-> <<>>, len |-> 0],
                    <<frame>>, s, a.bus, a.ret, a.retval, before, a.len, len0,
                    NotRead, a.ovf, w, <<>>, NoTwin)
  /\ UNCHANGED env

Call_DeviceType ==
  /\ pc = "idle"
  /\ \E frame \in Frames(DEVICE_TYPE) : \E s \in StackVals :
       \E d \in {DeviceType(frame, s)} :
           Return("DeviceType", NoArg, <<frame>>, s, d.bus, d.ret, d.retval,
                  Zeros(RESPONSE_MAX_SIZE), d.len, 0, NotRead, d.ovf)
  /\ UNCHANGED env

Call_OperationStatus ==
  /\ pc = "idle"
  /\ \E frame \in OpFrames(sec) : \E s \in StackVals : \E g \in GarbageFor(frame, s) :
       \E o \in {OperationStatus(frame, s, g)} :
           Return("OperationStatus", NoArg, <<frame>>, s, o.bus, o.ret, <<>>, <<>>,
                  0, 0, NotRead, o.ovf)
  /\ UNCHANGED env

\* Answers to securityMode()'s OperationStatus read: those of a device in
\* mode sec, and healthy ones whose SEC1, SEC0 bits are both 0.
Call_securityMode ==
  /\ pc = "idle"
  /\ \E frame \in OpFrames(sec) \cup OpFrames(0) : \E s \in StackVals :
     \E g \in GarbageFor(frame, s) :
       \E m \in {securityMode(frame, s, g)} :
           Return("securityMode", NoArg, <<frame>>, s, m.bus, m.ret, <<>>, <<>>,
                  0, 0, <<m.ret>>, m.ovf)
  /\ UNCHANGED env

Call__isDeviceSealed ==
  /\ pc = "idle"
  /\ \E frame \in OpFrames(sec) \cup OpFrames(0) : \E s \in StackVals :
     \E g \in GarbageFor(frame, s) :
       \E m \in {_isDeviceSealed(frame, s, g)} :
           Return("_isDeviceSealed", NoArg, <<frame>>, s, m.bus, m.ret, <<>>, <<>>,
                  0, 0, m.mode, m.ovf)
  /\ UNCHANGED env

\* The device's answers to a status read: it echoes the sub-command it was
\* sent; or nothing but zeros.
StatusFrames(cmd) ==
  {Zeros(RESPONSE_MAX_SIZE)} \cup {DeviceFrame(cmd, U32Bytes(v)) : v \in OpStatusOther}

Call_SafetyStatus ==
  /\ pc = "idle"
  /\ \E frame \in StatusFrames(PF_ALERT) : \E s \in StackVals :
     \E g \in GarbageFor(frame, s) :
       \E o \in {SafetyStatus(frame, s, g)} :
           Return("SafetyStatus", NoArg, <<frame>>, s, o.bus, o.ret, <<>>, <<>>,
                  0, 0, NotRead, o.ovf)
  /\ UNCHANGED env

Call_PFAlert ==
  /\ pc = "idle"
  /\ \E frame \in StatusFrames(PF_ALERT) : \E s \in StackVals :
     \E g \in GarbageFor(frame, s) :
       \E o \in {PFAlert(frame, s, g)} :
           Return("PFAlert", NoArg, <<frame>>, s, o.bus, o.ret, <<>>, <<>>,
                  0, 0, NotRead, o.ovf)
  /\ UNCHANGED env

\* A call of a command that only sends its sub-command; the device is not
\* asked whether it obeyed.
Command(name, io) ==
  /\ pc = "idle"
  /\ Return(name, NoArg, <<>>, 0, io, 0, <<>>, <<>>, 0, 0, NotRead, FALSE)
  /\ UNCHANGED env

Call_DeviceReset == Command("DeviceReset", DeviceReset)
Call_ChargeFET == Command("ChargeFET", ChargeFET)
Call_DischargeFET == Command("DischargeFET", DischargeFET)
Call_Gauging == Command("Gauging", Gauging)
Call_FETControl == Command("FETControl", FETControl)
Call_LifetimeDataReset == Command("LifetimeDataReset", LifetimeDataReset)
Call_PermanentFailureDataReset == Command("PermanentFailureDataReset", PermanentFailureDataReset)

\* SealDevice(): a device in any mode is sealed afterwards.
Call_SealDevice ==
  /\ pc = "idle"
  /\ Return("SealDevice", NoArg, <<>>, 0, SealDevice, 0, <<>>, <<>>, 0, 0,
            NotRead, FALSE)
  /\ sec' = SEALED
  /\ UNCHANGED <<flash, lastWrite, mfg, devBefore, SILENCE, DEBUG, scanAddr, scanned>>

KeyInputs == {DEFAULT_UNSEAL_KEY, DEFAULT_FULL_ACCESS_KEY, <<1, 2, 3, 4>>}

\* The mode of a device in mode m after a key was written: one level up if
\* the device took the key, m if it did not.
AfterKey(m) ==
  {m} \cup (IF m = SEALED THEN {UNSEALED}
            ELSE IF m = UNSEALED THEN {FULL_ACCESS} ELSE {})

Call_unsealDevice ==
  /\ pc = "idle"
  /\ \E key \in KeyInputs :
       Return("unsealDevice", [cmd |-> 0, data |-> key, len |-> 0], <<>>, 0,
              unsealDevice(key), 0, <<>>, <<>>, 0, 0, NotRead, FALSE)
  /\ sec' \in AfterKey(sec)
  /\ UNCHANGED <<flash, lastWrite, mfg, devBefore, SILENCE, DEBUG, scanAddr, scanned>>

Call_fullAccessDevice ==
  /\ pc = "idle"
  /\ \E key \in KeyInputs :
       Return("fullAccessDevice", [cmd |-> 0, data |-> key, len |-> 0], <<>>, 0,
              fullAccessDevice(key), 0, <<>>, <<>>, 0, 0, NotRead, FALSE)
  /\ sec' \in AfterKey(sec)
  /\ UNCHANGED <<flash, lastWrite, mfg, devBefore, SILENCE, DEBUG, scanAddr, scanned>>

\* Argument pairs (data, len) for the data-flash byte-array calls.
DfArgs ==
  {<<d, Len(d)>> : d \in Seqs(DataVals, MaxDataLen)} \cup
  {<<Fill(100, 32), 32>>, <<Fill(100, 33), 33>>, <<<<>>, -1>>}

\* Requested lengths for dfReadBytes.
LenArgs == {-1, 0, 1, 2, 32, 33}

Call_dfReadBytes ==
  /\ pc = "idle"
  /\ \E addr \in AddrInputs : \E len \in LenArgs : \E r1 \in OpFrames(sec) :
     \E r2 \in DfFrames(addr) : \E s \in StackVals : \E g \in GarbageFor(r1, s) :
       LET before == Pattern(IF len < 0 THEN 0 ELSE len) IN
       \E r \in {dfReadBytes(addr, before, len, r1, r2, s, g)} :
           Return("dfReadBytes", [cmd |-> addr, data |-> <<>>, len |-> len],
                  r.resp, s, r.bus, 0, r.retval, before, 0, 0, r.mode, r.ovf)
  /\ UNCHANGED env

Call_dfWriteBytes ==
  /\ pc = "idle"
  /\ \E addr \in AddrInputs : \E dl \in DfArgs : \E r1 \in OpFrames(sec) :
     \E s \in StackVals : \E g \in GarbageFor(r1, s) :
       \E r \in {dfWriteBytes(addr, dl[1], dl[2], r1, s, g)} :
           Return("dfWriteBytes", [cmd |-> addr, data |-> dl[1], len |-> dl[2]],
                  r.resp, s, r.bus, 0, dl[1], dl[1], 0, 0, r.mode, r.ovf)
  /\ UNCHANGED env

Call_dfReadByte ==
  /\ pc = "idle"
  /\ \E addr \in AddrInputs : \E r1 \in OpFrames(sec) : \E r2 \in DfFrames(addr) :
     \E s \in StackVals : \E g \in GarbageFor(r1, s) :
       \E r \in {dfReadByte(addr, r1, r2, s, g)} :
           Return("dfReadByte", [cmd |-> addr, data |-> <<>>, len |-> 1],
                  r.resp, s, r.bus, r.ret, <<r.ret>>, <<0>>, 0, 0, r.mode, r.ovf)
  /\ UNCHANGED env

Call_dfReadWord ==
  /\ pc = "idle"
  /\ \E addr \in AddrInputs : \E r1 \in OpFrames(sec) : \E r2 \in DfFrames(addr) :
     \E s \in StackVals : \E g \in GarbageFor(r1, s) :
       \E r \in {dfReadWord(addr, r1, r2, s, g)} :
           Return("dfReadWord", [cmd |-> addr, data |-> <<>>, len |-> 2],
                  r.resp, s, r.bus, r.ret, <<LoByte(r.ret), HiByte(r.ret)>>,
                  <<0, 0>>, 0, 0, r.mode, r.ovf)
  /\ UNCHANGED env

Call_dfWriteByte ==
  /\ pc = "idle"
  /\ \E addr \in AddrInputs : \E value \in DataVals : \E r1 \in OpFrames(sec) :
     \E s \in StackVals : \E g \in GarbageFor(r1, s) :
       \E r \in {dfWriteByte(addr, value, r1, s, g)} :
           Return("dfWriteByte", [cmd |-> addr, data |-> <<value>>, len |-> 1],
                  r.resp, s, r.bus, 0, <<value>>, <<value>>, 0, 0, r.mode, r.ovf)
  /\ UNCHANGED env

WordInputs == {0, 100, 9744, 65535}

Call_dfWriteWord ==
  /\ pc = "idle"
  /\ \E addr \in AddrInputs : \E value \in WordInputs : \E r1 \in OpFrames(sec) :
     \E s \in StackVals : \E g \in GarbageFor(r1, s) :
       LET data == <<LoByte(value), HiByte(value)>> IN
       \E r \in {dfWriteWord(addr, value, r1, s, g)} :
           Return("dfWriteWord", [cmd |-> addr, data |-> data, len |-> 2],
                  r.resp, s, r.bus, 0, data, data, 0, 0, r.mode, r.ovf)
  /\ UNCHANGED env

Call_dfReadString ==
  /\ pc = "idle"
  /\ \E addr \in AddrInputs : \E r2 \in DfFrames(addr) \cup StringFrames(addr) :
     \E s \in StackVals :
     \E gs \in (IF _isAddrValid(addr) THEN {<<>>} ELSE GarbageString) :
       \E r \in {dfReadString(addr, r2, s, gs)} :
           Return("dfReadString", [cmd |-> addr, data |-> <<>>, len |-> 0],
                  r.resp, s, r.bus, r.ret, <<>>, <<>>, 0, 0, NotRead, r.ovf)
  /\ UNCHANGED env

\* Back in loop(): the record of the finished call is dropped.
Loop ==
  /\ pc = "done"
  /\ pc' = "idle"
  /\ op' = "none"
  /\ arg' = NoArg
  /\ resp' = <<>>
  /\ stack' = 0
  /\ bus' = <<>>
  /\ ret' = 0
  /\ out' = <<>>
  /\ outBefore' = <<>>
  /\ outLen' = 0
  /\ lenBefore' = 0
  /\ mode' = NotRead
  /\ ovf' = FALSE
  /\ wire' = NoFault
  /\ log' = <<>>
  /\ twin' = NoTwin
  /\ devBefore' = [sec |-> sec, mfg |-> mfg]
  /\ scanAddr' = 0
  /\ scanned' = 0
  /\ UNCHANGED <<sec, flash, lastWrite, mfg, SILENCE, DEBUG>>

Next ==
  \/ Call_checksum
  \/ Call_isAllowedRequestPayloadSize
  \/ Call__isAddrValid
  \/ Call_composeWord
  \/ Call_composeValue
  \/ Call_composeDoubleWord
  \/ Call_validate
  \/ Call_AltManufacturerAccess
  \/ Call_DeviceType
  \/ Call_OperationStatus
  \/ Call_securityMode
  \/ Call__isDeviceSealed
  \/ Call_SafetyStatus
  \/ Call_PFAlert
  \/ Call_DeviceReset
  \/ Call_ChargeFET
  \/ Call_DischargeFET
  \/ Call_Gauging
  \/ Call_FETControl
  \/ Call_LifetimeDataReset
  \/ Call_PermanentFailureDataReset
  \/ Call_SealDevice
  \/ Call_unsealDevice
  \/ Call_fullAccessDevice
  \/ Call_dfReadBytes
  \/ Call_dfWriteBytes
  \/ Call_dfReadByte
  \/ Call_dfReadWord
  \/ Call_dfWriteByte
  \/ Call_dfWriteWord
  \/ Call_dfReadString
  \/ Loop

Spec == Init /\ [][Next]_vars

---------------------------------------------------------------------------
(* Serial output, and the calls repeated under other logging flags *)

Tag(cond, msg) == IF cond THEN <<msg>> ELSE <<>>

\* What validate(data) prints when DEBUG is dbg.
Serial_validate(data, s, dbg) ==
  Tag(~validate(data, s), "The device responded with invalid data.")
    \o (IF dbg THEN <<"$Checksum", "$Length", "$Result">> ELSE <<>>)

\* What AltManufacturerAccess prints when DEBUG is dbg.
Serial_AltManufacturerAccess(frame, s, dbg) ==
  Tag(dbg, "Obtained bytes: ") \o Serial_validate(frame, s, dbg)
    \o Tag(validate(frame, s) /\ dbg, "Data bytes: ")

\* What OperationStatus() prints when SILENCE is sil and DEBUG is dbg.
Serial_OperationStatus(frame, s, sil, dbg) ==
  Tag(~sil, "=== 12.2.30 AltManufacturerAccess() 0x0054 OperationStatus")
    \o Serial_AltManufacturerAccess(frame, s, dbg)
    \o Tag(validate(frame, s) /\ ~sil, "flags")

\* What securityMode() prints: it runs OperationStatus() with SILENCE set
\* unless DEBUG is on, and puts SILENCE back before its own messages.
Serial_securityMode(frame, s, sil, dbg) ==
  LET _silence == sil
      inner == IF ~dbg THEN TRUE ELSE sil
  IN  Serial_OperationStatus(frame, s, inner, dbg)
        \o Tag(dbg, "bits") \o Tag(~_silence, "=== Security mode: ")

\* What _isDeviceSealed() prints: securityMode() runs with SILENCE set;
\* sealed is its verdict.
Serial__isDeviceSealed(frame, s, sealed, dbg) ==
  Serial_securityMode(frame, s, TRUE, dbg)
    \o Tag(sealed, "[!] Operations with Data Flash are not allowed in SEALED Mode.")

\* What a data-flash call with valid arguments prints: the sealed check's
\* output, and the block read's when there is one (a read, not sealed).
Serial_df(r, s, isRead, dbg) ==
  IF r.resp = <<>> THEN <<>>
  ELSE Serial__isDeviceSealed(r.resp[1], s, r.mode = <<SEALED>>, dbg)
         \o (IF isRead /\ Len(r.resp) = 2
             THEN Serial_AltManufacturerAccess(r.resp[2], s, dbg) ELSE <<>>)

\* The other settings of the two flags.
OtherFlags == {f \in BOOLEAN \X BOOLEAN : f # <<SILENCE, DEBUG>>}

\* The record of the repeated call: its flags, the values undefined reads
\* took in it, and what it returned, sent and printed.
Twin(f, s, r, b, lg) ==
  [SILENCE |-> f[1], DEBUG |-> f[2], stack |-> s, ret |-> r, bus |-> b, log |-> lg]

InitFlags ==
  /\ Start
  /\ FetsOff
  /\ SILENCE \in BOOLEAN
  /\ DEBUG \in BOOLEAN

Flags_AltManufacturerAccess ==
  /\ pc = "idle"
  /\ \E frame \in DfFrames(DEVICE_TYPE) : \E s \in StackVals : \E s2 \in StackVals :
     \E f \in OtherFlags :
       LET before == Pattern(RESPONSE_MAX_SIZE) IN
       \E a \in {AltManufacturerAccess(DEVICE_TYPE, before, 0, frame, s)} :
       \E a2 \in {AltManufacturerAccess(DEVICE_TYPE, before, 0, frame, s2)} :
           ReturnIO("AltManufacturerAccess", [cmd |-> DEVICE_TYPE, data |-> <<>>, len |-> 0],
                    <<frame>>, s, a.bus, a.ret, a.retval, before, a.len, 0, NotRead,
                    a.ovf, NoFault, Serial_AltManufacturerAccess(frame, s, DEBUG),
                    Twin(f, s2, a2.ret, a2.bus,
                         Serial_AltManufacturerAccess(frame, s2, f[2])))
  /\ UNCHANGED env

Flags_OperationStatus ==
  /\ pc = "idle"
  /\ \E frame \in OpFrames(sec) : \E s \in StackVals : \E s2 \in StackVals :
     \E g \in GarbageFor(frame, s) : \E g2 \in GarbageFor(frame, s2) :
     \E f \in OtherFlags :
       \E o \in {OperationStatus(frame, s, g)} :
       \E o2 \in {OperationStatus(frame, s2, g2)} :
           ReturnIO("OperationStatus", NoArg, <<frame>>, s, o.bus, o.ret, <<>>, <<>>,
                    0, 0, NotRead, o.ovf, NoFault,
                    Serial_OperationStatus(frame, s, SILENCE, DEBUG),
                    Twin(f, s2, o2.ret, o2.bus,
                         Serial_OperationStatus(frame, s2, f[1], f[2])))
  /\ UNCHANGED env

Flags_securityMode ==
  /\ pc = "idle"
  /\ \E frame \in OpFrames(sec) : \E s \in StackVals : \E s2 \in StackVals :
     \E g \in GarbageFor(frame, s) : \E g2 \in GarbageFor(frame, s2) :
     \E f \in OtherFlags :
       \E m \in {securityMode(frame, s, g)} :
       \E m2 \in {securityMode(frame, s2, g2)} :
           ReturnIO("securityMode", NoArg, <<frame>>, s, m.bus, m.ret, <<>>, <<>>,
                    0, 0, <<m.ret>>, m.ovf, NoFault,
                    Serial_securityMode(frame, s, SILENCE, DEBUG),
                    Twin(f, s2, m2.ret, m2.bus,
                         Serial_securityMode(frame, s2, f[1], f[2])))
  /\ UNCHANGED env

Flags_dfReadWord ==
  /\ pc = "idle"
  /\ \E addr \in {DF_ADDR_MIN} : \E r1 \in OpFrames(sec) :
     \E r2 \in {DeviceFrame(addr, <<16, 38>>), Zeros(RESPONSE_MAX_SIZE)} :
     \E s \in StackVals : \E s2 \in StackVals :
     \E g \in GarbageFor(r1, s) : \E g2 \in GarbageFor(r1, s2) :
     \E f \in OtherFlags :
       \E r \in {dfReadWord(addr, r1, r2, s, g)} :
       \E q \in {dfReadWord(addr, r1, r2, s2, g2)} :
           ReturnIO("dfReadWord", [cmd |-> addr, data |-> <<>>, len |-> 2],
                    r.resp, s, r.bus, r.ret, <<LoByte(r.ret), HiByte(r.ret)>>,
                    <<0, 0>>, 0, 0, r.mode, r.ovf, NoFault,
                    Serial_df(r, s, TRUE, DEBUG),
                    Twin(f, s2, q.ret, q.bus, Serial_df(q, s2, TRUE, f[2])))
  /\ UNCHANGED env

Flags_dfWriteWord ==
  /\ pc = "idle"
  /\ \E addr \in {DF_ADDR_MIN} : \E value \in {9744} : \E r1 \in OpFrames(sec) :
     \E s \in StackVals : \E s2 \in StackVals :
     \E g \in GarbageFor(r1, s) : \E g2 \in GarbageFor(r1, s2) :
     \E f \in OtherFlags :
       LET data == <<LoByte(value), HiByte(value)>> IN
       \E r \in {dfWriteWord(addr, value, r1, s, g)} :
       \E q \in {dfWriteWord(addr, value, r1, s2, g2)} :
           ReturnIO("dfWriteWord", [cmd |-> addr, data |-> data, len |-> 2],
                    r.resp, s, r.bus, 0, data, data, 0, 0, r.mode, r.ovf, NoFault,
                    Serial_df(r, s, FALSE, DEBUG),
                    Twin(f, s2, 0, q.bus, Serial_df(q, s2, FALSE, f[2])))
  /\ UNCHANGED env

NextFlags ==
  \/ Flags_AltManufacturerAccess
  \/ Flags_OperationStatus
  \/ Flags_securityMode
  \/ Flags_dfReadWord
  \/ Flags_dfWriteWord
  \/ Loop

SpecFlags == InitFlags /\ [][NextFlags]_vars

---------------------------------------------------------------------------
(* The data-flash accessors against a device that stores what is written *)

\* The byte the device holds at address a; 0xFF where nothing was written.
FlashAt(f, a) == IF a \in DOMAIN f THEN f[a] ELSE 255

\* The device takes a block write when the write to 0x3E carried an address
\* and data, and the write to 0x60 the complement of their sum and the
\* number of data bytes plus 4.
DevAccepts(w1, w2) ==
  /\ Len(w1.bytes) > 1 + ADDR_SIZE
  /\ w1.bytes[1] = ALT_MANUFACTURER_ACCESS
  /\ w2.bytes = <<MAC_DATA_CHECKSUM,
                  Inv8(SumTo(Tail(w1.bytes), 0, Len(w1.bytes) - 1)),
                  Len(w1.bytes) - 1 + CHECKSUM_AND_LENGTH_SIZE>>

\* The device's data flash after the bus traffic io of one call: in security
\* mode m other than SEALED an accepted block write is stored byte by byte
\* from its address on.
DevStore(f, m, io) ==
  LET ws == Writes(io)
      ks == {k \in 1..(Len(ws) - 1) : DevAccepts(ws[k], ws[k + 1])}
  IN  IF m = SEALED \/ ks = {} THEN f
      ELSE LET b == ws[CHOOSE k \in ks : TRUE].bytes
               a == b[2] + 256 * b[3]
               n == Len(b) - 1 - ADDR_SIZE
           IN  [x \in DOMAIN f \cup (a..(a + n - 1)) |->
                  IF a <= x /\ x < a + n THEN b[4 + x - a] ELSE f[x]]

\* The device's answer to the block read that follows the command bytes c:
\* the 32 bytes from the address in c on.
DevRead(f, c) ==
  LET a == c[2] + 256 * c[3]
  IN  DeviceFrame(a, [i \in 1..PAYLOAD_MAX_SIZE |-> FlashAt(f, a + i - 1)])

\* The device's answer to the OperationStatus read: its security mode in
\* bits 8 and 9, o in the other bits.
DevStatus(m, o) == DeviceFrame(OPERATION_STATUS, U32Bytes(m * 256 + o))

DevAddrs == {16383, 16384, 24574}
DevWords == {4660, 65280}
DevBytes == {52}

Dev_dfWriteWord ==
  /\ pc = "idle"
  /\ \E addr \in DevAddrs : \E value \in DevWords : \E o \in OpStatusOther :
       LET data == <<LoByte(value), HiByte(value)>> IN
       \E r \in {dfWriteWord(addr, value, DevStatus(sec, o), 0, U32Zero)} :
         /\ Return("dfWriteWord", [cmd |-> addr, data |-> data, len |-> 2],
                   r.resp, 0, r.bus, 0, data, data, 0, 0, r.mode, r.ovf)
         /\ flash' = DevStore(flash, sec, r.bus)
         /\ lastWrite' = [op |-> "dfWriteWord", addr |-> addr, value |-> value]
  /\ UNCHANGED <<sec, mfg, devBefore, SILENCE, DEBUG, scanAddr, scanned>>

Dev_dfWriteByte ==
  /\ pc = "idle"
  /\ \E addr \in DevAddrs : \E value \in DevBytes : \E o \in OpStatusOther :
       \E r \in {dfWriteByte(addr, value, DevStatus(sec, o), 0, U32Zero)} :
         /\ Return("dfWriteByte", [cmd |-> addr, data |-> <<value>>, len |-> 1],
                   r.resp, 0, r.bus, 0, <<value>>, <<value>>, 0, 0, r.mode, r.ovf)
         /\ flash' = DevStore(flash, sec, r.bus)
         /\ lastWrite' = [op |-> "dfWriteByte", addr |-> addr, value |-> value]
  /\ UNCHANGED <<sec, mfg, devBefore, SILENCE, DEBUG, scanAddr, scanned>>

Dev_dfReadWord ==
  /\ pc = "idle"
  /\ \E addr \in DevAddrs : \E o \in OpStatusOther :
       \E r \in {dfReadWord(addr, DevStatus(sec, o),
                            DevRead(flash, sendCommand(ALT_MANUFACTURER_ACCESS, addr)),
                            0, U32Zero)} :
           Return("dfReadWord", [cmd |-> addr, data |-> <<>>, len |-> 2],
                  r.resp, 0, r.bus, r.ret, <<LoByte(r.ret), HiByte(r.ret)>>,
                  <<0, 0>>, 0, 0, r.mode, r.ovf)
  /\ UNCHANGED env

Dev_dfReadByte ==
  /\ pc = "idle"
  /\ \E addr \in DevAddrs : \E o \in OpStatusOther :
       \E r \in {dfReadByte(addr, DevStatus(sec, o),
                            DevRead(flash, sendCommand(ALT_MANUFACTURER_ACCESS, addr)),
                            0, U32Zero)} :
           Return("dfReadByte", [cmd |-> addr, data |-> <<>>, len |-> 1],
                  r.resp, 0, r.bus, r.ret, <<r.ret>>, <<0>>, 0, 0, r.mode, r.ovf)
  /\ UNCHANGED env

\* The device answers the read of FET Options with what it holds, or does
\* not answer and leaves the zeroed buffer as it was.
Dev_dfWriteFetOptionsCHGFET ==
  /\ pc = "idle"
  /\ \E chgFetBitValue \in BOOLEAN :
     \E r2 \in {DevRead(flash, sendCommand(ALT_MANUFACTURER_ACCESS, FET_OPTIONS)),
                Zeros(RESPONSE_MAX_SIZE)} :
       \E r \in {dfWriteFetOptionsCHGFET(chgFetBitValue, DevStatus(sec, 0), r2,
                                         DevStatus(sec, 0), 0, U32Zero, U32Zero)} :
         /\ Return("dfWriteFetOptionsCHGFET",
                   [cmd |-> FET_OPTIONS, data |-> <<chgFetBitValue>>, len |-> 1],
                   r.resp, 0, r.bus, r.fetOptions, <<r.fetOptions>>,
                   <<FlashAt(flash, FET_OPTIONS)>>, 0, 0, r.mode, r.ovf)
         /\ flash' = DevStore(flash, sec, r.bus)
         /\ lastWrite' = [op |-> "dfWriteFetOptionsCHGFET", addr |-> FET_OPTIONS,
                          value |-> r.fetOptions]
  /\ UNCHANGED <<sec, mfg, devBefore, SILENCE, DEBUG, scanAddr, scanned>>

NextDevice ==
  \/ Dev_dfWriteWord
  \/ Dev_dfWriteByte
  \/ Dev_dfReadWord
  \/ Dev_dfReadByte
  \/ Dev_dfWriteFetOptionsCHGFET
  \/ Loop

SpecDevice == Init /\ [][NextDevice]_vars

---------------------------------------------------------------------------
(* The FET service functions against a device that obeys while not sealed *)

Flip(b) == 1 - b

\* The two words of the device's unseal key, in the order it expects them.
DevUnsealWords ==
  <<DEFAULT_UNSEAL_KEY[1] + 256 * DEFAULT_UNSEAL_KEY[2],
    DEFAULT_UNSEAL_KEY[3] + 256 * DEFAULT_UNSEAL_KEY[4]>>

\* The device d = [sec, mfg] after the word w was written to 0x3E, prev
\* being the word written before it.  Sealed, it takes nothing but its
\* unseal key; otherwise FET Control, CHG FET and DSG FET toggle their bit
\* and Seal Device seals.
DevCommand(d, prev, w) ==
  IF d.sec = SEALED
  THEN IF <<prev, w>> = DevUnsealWords THEN [d EXCEPT !.sec = UNSEALED] ELSE d
  ELSE CASE w = FET_CONTROL -> [d EXCEPT !.mfg.FET_EN = Flip(@)]
         [] w = CHG_FET -> [d EXCEPT !.mfg.CHG_TEST = Flip(@)]
         [] w = DSG_FET -> [d EXCEPT !.mfg.DSG_TEST = Flip(@)]
         [] w = SEAL_DEVICE -> [d EXCEPT !.sec = SEALED]
         [] OTHER -> d

\* The device after the bus traffic io: only the three-byte writes to 0x3E
\* carry a command word.
RECURSIVE DevApply(_, _, _)
DevApply(d, prev, io) ==
  IF io = <<>> THEN d
  ELSE LET x == Head(io)
       IN  IF x.t = "write" /\ Len(x.bytes) = 3 /\ x.bytes[1] = ALT_MANUFACTURER_ACCESS
           THEN LET w == x.bytes[2] + 256 * x.bytes[3]
                IN  DevApply(DevCommand(d, prev, w), w, Tail(io))
           ELSE DevApply(d, prev, Tail(io))

\* The device's answer to the ManufacturingStatus read: its three bits, o in
\* the other bits.
MfgOther == {0, 32872}
DevMfgWord(m, o) ==
  m.FET_EN * (2 ^ FET_EN_n) + m.DSG_TEST * (2 ^ DSG_TEST_n)
    + m.CHG_TEST * (2 ^ CHG_TEST_n) + o
DevMfgStatus(m, o) ==
  DeviceFrame(MANUFACTURER_STATUS, <<LoByte(DevMfgWord(m, o)), HiByte(DevMfgWord(m, o))>>)

\* A service call against the device: r is what the driver did, given the
\* device's answers; the device then is what the writes of r.bus made it.
FetCall(name, fetMode, r) ==
  \E d \in {DevApply([sec |-> sec, mfg |-> mfg], -1, r.bus)} :
    /\ Return(name, [cmd |-> 0, data |-> <<>>, len |-> 0, mode |-> fetMode],
              r.resp, 0, r.bus, 0, <<>>, <<>>, 0, 0, r.mode, r.ovf)
    /\ sec' = d.sec
    /\ mfg' = d.mfg
    /\ UNCHANGED <<flash, lastWrite, devBefore, SILENCE, DEBUG, scanAddr, scanned>>

Fet_fetControl ==
  /\ pc = "idle"
  /\ \E fetMode \in BOOLEAN : \E mo \in MfgOther : \E o \in OpStatusOther :
       FetCall("fetControl", fetMode,
               fetControl(fetMode, DevMfgStatus(mfg, mo), DevStatus(sec, o),
                          0, 0, U32Zero))

Fet_manufactoryChargeFet ==
  /\ pc = "idle"
  /\ \E fetMode \in BOOLEAN : \E mo \in MfgOther : \E o \in OpStatusOther :
       FetCall("manufactoryChargeFet", fetMode,
               manufactoryChargeFet(fetMode, DevMfgStatus(mfg, mo), DevStatus(sec, o),
                                    0, 0, U32Zero))

Fet_manufactoryDischargeFet ==
  /\ pc = "idle"
  /\ \E fetMode \in BOOLEAN : \E mo \in MfgOther : \E o \in OpStatusOther :
       FetCall("manufactoryDischargeFet", fetMode,
               manufactoryDischargeFet(fetMode, DevMfgStatus(mfg, mo),
                                       DevStatus(sec, o), 0, 0, U32Zero))

Fet_SealDevice ==
  /\ pc = "idle"
  /\ FetCall("SealDevice", FALSE,
             [bus |-> SealDevice, resp |-> <<>>, mode |-> NotRead, ovf |-> FALSE])

InitFet ==
  /\ Start
  /\ mfg \in MfgStates
  /\ devBefore = [sec |-> sec, mfg |-> mfg]
  /\ SILENCE = FALSE
  /\ DEBUG = FALSE

NextFet ==
  \/ Fet_fetControl
  \/ Fet_manufactoryChargeFet
  \/ Fet_manufactoryDischargeFet
  \/ Fet_SealDevice
  \/ Loop

SpecFet == InitFet /\ [][NextFet]_vars


---------------------------------------------------------------------------
(* Properties *)

RECURSIVE PlainSum(_)
PlainSum(q) == IF q = <<>> THEN 0 ELSE Head(q) + PlainSum(Tail(q))

Done(name) == pc = "done" /\ op = name
DfWriteOps == {"dfWriteBytes", "dfWriteByte", "dfWriteWord"}
DfReadOps == {"dfReadBytes", "dfReadByte", "dfReadWord"}
InDataFlash(a) == 16384 <= a /\ a <= 24575

\* The six transactions of one block read of sub-command cmd.
BlockRead(cmd) ==
  <<W(<<62, cmd % 256, cmd \div 256>>), D(5), W(<<62>>), R(2), R(32), R(2)>>

\* C1: every block read issues, once and with nothing else in between,
\* write [0x3E, low, high]; 5 ms delay; bare write [0x3E]; read requests
\* totalling 36 bytes -- whether or not the frame validates.
C1_BlockReadSequence ==
  (pc = "done" /\ op \in {"AltManufacturerAccess", "DeviceType"}) =>
    LET cmd == IF op = "DeviceType" THEN 1 ELSE arg.cmd
    IN  /\ Len(bus) >= 4
        /\ bus[1] = W(<<62, cmd % 256, cmd \div 256>>)
        /\ bus[2] = D(5)
        /\ bus[3] = W(<<62>>)
        /\ \A i \in 4..Len(bus) : bus[i].t = "read"
        /\ ReadTotal(bus) = 36
        /\ Len(Writes(bus)) = 2

C1_Witness ==
  /\ Done("AltManufacturerAccess")
  /\ ret = FALSE
  /\ arg.cmd = 17962
  /\ ReadTotal(bus) = 36

\* A byte of the 36-byte frame; an index outside the frame names no byte.
FrameByte(frame, i) == IF 0 <= i /\ i < 36 THEN frame[i + 1] ELSE -1

\* C2: when the frame passes validate, AltManufacturerAccess returns true,
\* *len is frame[35] - 4 and the output holds frame[2 .. 2 + (frame[35] - 4))
\* in order; frame [0x01,0x00,0x10,0x26,0,...,checksum,6] decodes to 0x2610.
C2_ValidFrameDecoded ==
  /\ Done("AltManufacturerAccess") /\ validate(resp[1], stack) =>
       LET n == resp[1][36] - 4
       IN  /\ ret = TRUE
           /\ outLen = n
           /\ \A i \in 1..Len(out) :
                out[i] = IF i - 1 < n THEN FrameByte(resp[1], 2 + i - 1) ELSE outBefore[i]
           /\ ovf = FALSE
  /\ Done("DeviceType") /\ resp[1] = DeviceFrame(1, <<16, 38>>) =>
       ret = 9744 /\ outLen = 2 /\ out[1] = 16 /\ out[2] = 38

\* C3: when the frame fails validate, AltManufacturerAccess returns false and
\* the caller's buffer and *len are what they were before the call.
C3_InvalidFrameNoOutput ==
  Done("AltManufacturerAccess") /\ ~validate(resp[1], stack) =>
    ret = FALSE /\ out = outBefore /\ outLen = lenBefore

C3_Witness ==
  /\ Done("AltManufacturerAccess")
  /\ ret = FALSE
  /\ resp[1][36] = 6
  /\ resp[1][3] = 16
  /\ lenBefore = 7
  /\ outLen = 7

\* The 8-bit sum of frame[34] and frame[0 .. frame[35] - 2), taken over the
\* bytes of the 36-byte frame.
FrameSum(frame) ==
  LET n == IF frame[36] - 2 > 36 THEN 36 ELSE frame[36] - 2
  IN  (frame[35] + PlainSum(SubSeq(frame, 1, n))) % 256

\* C4: validate(frame) is true exactly when the 8-bit sum of frame[34] and
\* frame[0 .. frame[35] - 2) is non-zero; so false for the all-zero frame and
\* true for a frame with length in [4,36] and the complement checksum.
C4_ValidateNonZeroSum ==
  Done("validate") =>
    /\ ret = (FrameSum(resp[1]) # 0)
    /\ resp[1] = Zeros(36) => ret = FALSE
    /\ ( /\ resp[1][36] \in 4..36
         /\ resp[1][35] = 255 - (PlainSum(SubSeq(resp[1], 1, resp[1][36] - 2)) % 256) )
       => ret = TRUE

\* C5: validate accepts a frame only when the summed bytes plus the checksum
\* give 0xFF; any other sum is rejected.  Stated for the frames whose length
\* byte is within the protocol's range, where the summed bytes are all part
\* of the frame.
C5_ValidateFullByte ==
  Done("validate") /\ resp[1][36] \in 4..36 /\ FrameSum(resp[1]) # 255 => ret = FALSE

\* C6: checksum(data, len) is the complement of the 8-bit sum of data[0..len),
\* so sum + checksum = 0xFF modulo 256.
C6_ChecksumComplement ==
  Done("checksum") =>
    LET sum == PlainSum(SubSeq(arg.data, 1, arg.len))
    IN  /\ ret \in 0..255
        /\ ret = 255 - (sum % 256)
        /\ (sum + ret) % 256 = 255

C6_Witness ==
  /\ Done("checksum")
  /\ arg.len = 2
  /\ PlainSum(SubSeq(arg.data, 1, arg.len)) > 255
  /\ ret = 1

\* C7: a data-flash read or write with an address outside [0x4000, 0x5FFF] or
\* a length outside [1, 32] issues no bus transaction at all (the security
\* mode is not queried either) and leaves the caller's buffer unchanged.
C7_RangeErrorNoIO ==
  ( /\ pc = "done"
    /\ op \in DfReadOps \cup DfWriteOps
    /\ (~InDataFlash(arg.cmd) \/ arg.len < 1 \/ arg.len > 32) )
  => bus = <<>> /\ resp = <<>> /\ mode = NotRead /\ out = outBefore

C7_Witness ==
  /\ Done("dfReadBytes")
  /\ InDataFlash(arg.cmd)
  /\ arg.len = 33
  /\ bus = <<>>
  /\ out = Fill(170, 33)

\* The device is not sealed and the sealed check read its mode correctly.
UnsealedDevice == sec # 3 /\ mode = <<sec>> /\ validate(resp[1], stack)

IsWrite0x462A ==
  /\ pc = "done"
  /\ op \in {"dfWriteBytes", "dfWriteWord"}
  /\ arg.cmd = 17962
  /\ arg.data = <<100, 0>>
  /\ arg.len = 2

Accepted ==
  /\ pc = "done"
  /\ op \in DfWriteOps
  /\ InDataFlash(arg.cmd)
  /\ arg.len \in 1..32
  /\ mode \notin {NotRead, <<3>>}

\* C9: the write phase of an accepted dfWriteBytes is one transfer
\* [0x3E, addr low, addr high, data...], directly followed by one transfer
\* [0x60, c, len + 4] with c the checksum of address and data, then a 200 ms
\* delay and nothing more (no read-back); a frame with these bytes, checksum
\* c and length len + 4 passes validate.
C9_WritePhase ==
  Accepted =>
    LET lo == arg.cmd % 256
        hi == arg.cmd \div 256
        body == <<lo, hi>> \o SubSeq(arg.data, 1, arg.len)
        c == 255 - (PlainSum(body) % 256)
        n == Len(bus)
        frame == [i \in 1..36 |-> IF i <= Len(body) THEN body[i]
                                   ELSE IF i = 35 THEN c
                                   ELSE IF i = 36 THEN arg.len + 4 ELSE 0]
    IN  /\ n = 9
        /\ SubSeq(bus, 1, 6) = BlockRead(84)
        /\ bus[7] = W(<<62>> \o body)
        /\ bus[8] = W(<<96, c, arg.len + 4>>)
        /\ bus[9] = D(200)
        /\ validate(frame, stack)

C9_Witness ==
  /\ Accepted
  /\ op = "dfWriteBytes"
  /\ arg.len = 32
  /\ Len(bus[7].bytes) = 35
  /\ bus[8].bytes[3] = 36

\* C10: when the security mode is SEALED, dfReadBytes, dfWriteBytes and
\* dfReadString write no data-flash address to register 0x3E and leave the
\* caller's output unchanged.
C10_SealedNoDataFlashAccess ==
  ( /\ pc = "done"
    /\ op \in {"dfReadBytes", "dfWriteBytes", "dfReadString"}
    /\ (mode = <<3>> \/ (op = "dfReadString" /\ sec = 3)) )
  => /\ \A i \in 1..Len(bus) :
          ~( /\ bus[i].t = "write"
             /\ Len(bus[i].bytes) >= 3
             /\ bus[i].bytes[1] = 62
             /\ InDataFlash(bus[i].bytes[2] + 256 * bus[i].bytes[3]) )
     /\ out = outBefore

\* C11: an I/O failure during the block read -- a command write that is not
\* acknowledged, or a read request that delivers fewer bytes than asked for --
\* makes AltManufacturerAccess return false and leaves the caller's buffer
\* and *len as they were.
C11_IOFailureFails ==
  Done("AltManufacturerAccess") /\ wire # NoFault =>
    ret = FALSE /\ out = outBefore /\ outLen = lenBefore

\* C12: for any 36-byte response, whatever its length byte, validate and
\* AltManufacturerAccess read frame indices 0..35 only, and a successful
\* AltManufacturerAccess writes at most 32 bytes to the output and reports
\* *len in [0, 32].
C12_FrameBound ==
  /\ Done("validate") => ~ovf
  /\ Done("AltManufacturerAccess") => ~ovf
  /\ Done("AltManufacturerAccess") /\ ret = TRUE =>
       /\ outLen \in 0..32
       /\ \A i \in 33..Len(out) : out[i] = outBefore[i]

\* C13: when the underlying block read fails validation, a typed reader
\* returns its "no data" value: 0 from DeviceType, OperationStatus, dfReadByte
\* and dfReadWord, the empty string from dfReadString.
C13_NoDataOnInvalid ==
  /\ Done("DeviceType") /\ ~validate(resp[1], stack) => ret = 0
  /\ Done("OperationStatus") /\ ~validate(resp[1], stack) => ret = <<0, 0, 0, 0>>
  /\ pc = "done" /\ op \in {"dfReadByte", "dfReadWord"} /\ Len(resp) = 2
       /\ ~validate(resp[2], stack) => ret = 0
  /\ Done("dfReadString") /\ Len(resp) = 1 /\ ~validate(resp[1], stack) => ret = <<>>

\* C14: isAllowedRequestPayloadSize(len) is true exactly when 1 <= len <= 32;
\* so it is false for 0, for negative lengths and for 33, true for 1 and 32.
C14_PayloadSizeRange ==
  Done("isAllowedRequestPayloadSize") =>
    /\ ret = (1 <= arg.len /\ arg.len <= 32)
    /\ arg.len \in {0, -1, 33} => ret = FALSE
    /\ arg.len \in {1, 32} => ret = TRUE

C14_Witness == Done("isAllowedRequestPayloadSize") /\ arg.len = 32 /\ ret = TRUE

\* C15: _isAddrValid(addr) is true exactly when 0x4000 <= addr <= 0x5FFF,
\* both boundaries included.
C15_AddrRange ==
  Done("_isAddrValid") =>
    /\ ret = (16384 <= arg.cmd /\ arg.cmd <= 24575)
    /\ arg.cmd \in {16384, 24575} => ret = TRUE
    /\ arg.cmd \in {16383, 24576} => ret = FALSE

C15_Witness == Done("_isAddrValid") /\ arg.cmd = 16384 /\ ret = TRUE

\* C16: composeWord returns low + 256 * high, where low is the byte at
\* lsbIndex and high the byte at lsbIndex + 1 (little-endian) or lsbIndex - 1
\* (big-endian): [0x11, 0x22] gives 0x2211 little-endian and 0x1122
\* big-endian.  With lsbIndex = 0 big-endian it returns 0, also when there is
\* no buffer to read.
C16_ComposeWord ==
  Done("composeWord") =>
    LET buf == arg.data
        i == arg.lsbIndex
    IN  /\ arg.littleEndian => ret = At(buf, i) + 256 * At(buf, i + 1)
        /\ ~arg.littleEndian /\ i > 0 => ret = At(buf, i) + 256 * At(buf, i - 1)
        /\ ~arg.littleEndian /\ i = 0 => ret = 0
        /\ arg.littleEndian /\ i = 0 /\ SubSeq(buf, 1, 2) = <<17, 34>> => ret = 8721
        /\ ~arg.littleEndian /\ i = 1 /\ SubSeq(buf, 1, 2) = <<17, 34>> => ret = 4386

C16_Witness ==
  /\ Done("composeWord") /\ ~arg.littleEndian /\ arg.lsbIndex = 1
  /\ SubSeq(arg.data, 1, 2) = <<17, 34>> /\ ret = 4386

\* C17: for from < till, byte j of composeValue(buf, from, till) is
\* buf[from + j] for the four bytes the 32-bit accumulator holds (0 past till),
\* which is the little-endian value of the range modulo 2^32;
\* composeValue([0x11, 0x22, 0x33, 0x44], 0, 3) = 0x44332211, and
\* composeDoubleWord(buf) is the value of the range 0..3.
C17_ComposeValue ==
  /\ Done("composeValue") /\ arg.from < arg.till =>
       /\ \A j \in 0..3 :
            ret[j + 1] = IF arg.from + j <= arg.till THEN At(arg.data, arg.from + j) ELSE 0
       /\ arg.data = <<17, 34, 51, 68>> /\ arg.from = 0 /\ arg.till = 3 =>
            ret = <<17, 34, 51, 68>>
  /\ Done("composeDoubleWord") => ret = SubSeq(arg.data, 1, 4)

C17_Witness ==
  /\ Done("composeValue") /\ arg.from = 0 /\ arg.till = 4
  /\ arg.data[1] = 18 /\ arg.data[5] = 255 /\ ret[1] = 18

\* C18: against a device that stores what is written while it is not sealed,
\* for an address a in 0x4000..0x5FFE: dfWriteWord(a, v) leaves the low byte
\* of v at a and the high byte at a + 1, a dfReadWord(a) that follows returns
\* v, and a dfReadByte(a) that follows dfWriteByte(a, b) returns b.
C18_RoundTrip ==
  sec # SEALED /\ pc = "done" /\ lastWrite.addr = arg.cmd
    /\ 16384 <= arg.cmd /\ arg.cmd <= 24574 =>
      /\ op = "dfWriteWord" =>
           /\ FlashAt(flash, arg.cmd) = lastWrite.value % 256
           /\ FlashAt(flash, arg.cmd + 1) = lastWrite.value \div 256
      /\ op = "dfReadWord" /\ lastWrite.op = "dfWriteWord" => ret = lastWrite.value
      /\ op = "dfReadByte" /\ lastWrite.op = "dfWriteByte" => ret = lastWrite.value

C18_Witness ==
  /\ sec = UNSEALED /\ Done("dfReadWord") /\ arg.cmd = 24574
  /\ lastWrite = [op |-> "dfWriteWord", addr |-> 24574, value |-> 4660]
  /\ ret = 4660

\* C19: when the block read succeeds with a frame of at most 36 bytes whose
\* payload starts with n, dfReadString reads no byte outside its 36-byte
\* buffer; and when the n bytes after it lie in the payload and none of them
\* is NUL, the string returned is exactly those n bytes.
C19_StringDecoded ==
  Done("dfReadString") /\ Len(resp) = 1 /\ validate(resp[1], stack)
    /\ At(resp[1], LENGTH_INDEX) <= RESPONSE_MAX_SIZE =>
      LET payload == SubSeq(resp[1], DATA_INDEX + 1, At(resp[1], LENGTH_INDEX) - 2)
          n == IF payload = <<>> THEN 0 ELSE payload[1]
          chars == SubSeq(payload, 2, n + 1)
      IN  /\ ~ovf
          /\ n + 1 <= Len(payload) /\ (\A i \in 1..n : chars[i] # 0) => ret = chars

\* C20: a call repeated under other values of SILENCE and DEBUG, with the
\* same answers from the device, returns the same value and produces the
\* same bus transactions.
C20_FlagIndependence ==
  pc = "done" /\ twin # NoTwin => twin.ret = ret /\ twin.bus = bus


\* C21: every call waits its settle time: 5 ms between the sub-command write
\* and the bare write of 0x3E that opens a block read; 500 ms after the
\* command of DeviceReset, ChargeFET, DischargeFET, Gauging and FETControl;
\* 1000 ms after that of PermanentFailureDataReset; 200 ms after the write to
\* 0x60 of a data-flash write; 1000 ms after the second key word of
\* unsealDevice.
C21_SettleTimes ==
  pc = "done" =>
    /\ \A i \in 1..Len(bus) :
         /\ bus[i] = W(<<62>>) =>
              i >= 3 /\ bus[i - 1] = D(5) /\ bus[i - 2].t = "write"
                /\ Len(bus[i - 2].bytes) = 3
         /\ bus[i].t = "write" /\ bus[i].bytes[1] = 96 =>
              i + 1 = Len(bus) /\ bus[i + 1] = D(200)
    /\ op = "DeviceReset" => bus = <<W(<<62, 18, 0>>), D(500)>>
    /\ op = "ChargeFET" => bus = <<W(<<62, 31, 0>>), D(500)>>
    /\ op = "DischargeFET" => bus = <<W(<<62, 32, 0>>), D(500)>>
    /\ op = "Gauging" => bus = <<W(<<62, 33, 0>>), D(500)>>
    /\ op = "FETControl" => bus = <<W(<<62, 34, 0>>), D(500)>>
    /\ op = "PermanentFailureDataReset" => bus = <<W(<<62, 41, 0>>), D(1000)>>
    /\ op = "unsealDevice" =>
         Len(bus) = 4 /\ bus[3].t = "write" /\ bus[4] = D(1000)

C21_Witness ==
  Done("PermanentFailureDataReset") /\ bus = <<W(<<62, 41, 0>>), D(1000)>>


\* C22: SafetyStatus() requests sub-command 0x0051: its first bus write is
\* [0x3E, 0x51, 0x00], and a frame it accepts is the device's answer to
\* 0x0051, which starts with the bytes 0x51, 0x00.
C22_SafetyStatusSubcommand ==
  Done("SafetyStatus") =>
    /\ bus[1] = W(<<62, 81, 0>>)
    /\ validate(resp[1], stack) => SubSeq(resp[1], 1, 2) = <<81, 0>>


\* C23: securityMode() returns bits 9..8 of the OperationStatus value it
\* read, and that is one of FULL_ACCESS (1), UNSEALED (2), SEALED (3);
\* _isDeviceSealed() is true exactly when the mode it obtained is 3.
C23_TriState ==
  /\ Done("securityMode") =>
       /\ ret \in {1, 2, 3}
       /\ validate(resp[1], stack) => ret = At(resp[1], DATA_INDEX + 1) % 4
  /\ Done("_isDeviceSealed") => ret = (mode = <<3>>)


\* C24: unsealDevice(key) and fullAccessDevice(key) put exactly two writes
\* on the bus, both to 0x3E, with a 5 ms delay and nothing else between
\* them: the low word of the key, then the high word, each low byte first.
\* For the key 0x36720414 they are [0x3E, 0x14, 0x04] and [0x3E, 0x72, 0x36].
C24_KeyWrites ==
  pc = "done" /\ op \in {"unsealDevice", "fullAccessDevice"} =>
    LET key == arg.data
    IN  /\ Len(Writes(bus)) = 2
        /\ ReadTotal(bus) = 0
        /\ SubSeq(bus, 1, 3) =
             <<W(<<62, key[1], key[2]>>), D(5), W(<<62, key[3], key[4]>>)>>
        /\ \A i \in 4..Len(bus) : bus[i].t = "delay"
        /\ key = <<20, 4, 114, 54>> =>
             Writes(bus) = <<W(<<62, 20, 4>>), W(<<62, 114, 54>>)>>

C24_Witness ==
  /\ Done("fullAccessDevice") /\ arg.data = <<20, 4, 114, 54>>
  /\ Writes(bus) = <<W(<<62, 20, 4>>), W(<<62, 114, 54>>)>>


FetBit(b) == IF b THEN 1 ELSE 0
Sent(cmd) == \E i \in 1..Len(bus) : bus[i] = W(<<62, cmd, 0>>)

\* C25: against a device in which FET Control toggles FET_EN only while it
\* is not sealed: when fetControl(mode) returns FET_EN is mode; the FET
\* Control command (0x22) was sent exactly when FET_EN differed from mode
\* before the call; and a device that was SEALED before the call is SEALED
\* after it, the writes that follow the two status reads being the two key
\* words, FET Control and Seal Device (0x30), in that order.
C25_FetControl ==
  Done("fetControl") =>
    /\ mfg.FET_EN = FetBit(arg.mode)
    /\ Sent(34) <=> devBefore.mfg.FET_EN # FetBit(arg.mode)
    /\ devBefore.sec = SEALED =>
         /\ sec = SEALED
         /\ Sent(34) =>
              SubSeq(Writes(bus), 5, Len(Writes(bus))) =
                <<W(<<62, 20, 4>>), W(<<62, 114, 54>>), W(<<62, 34, 0>>),
                  W(<<62, 48, 0>>)>>
    /\ mfg.CHG_TEST = devBefore.mfg.CHG_TEST
    /\ mfg.DSG_TEST = devBefore.mfg.DSG_TEST

C25_Witness ==
  /\ Done("fetControl") /\ devBefore.sec = SEALED /\ sec = SEALED
  /\ arg.mode = TRUE /\ devBefore.mfg.FET_EN = 0 /\ mfg.FET_EN = 1


Count(cmd) == Len(SelectSeq(bus, LAMBDA x : x = W(<<62, cmd, 0>>)))

\* C26: against a device that ignores FET Control and the CHG FET / DSG FET
\* toggles while it is sealed: when manufactoryChargeFet(mode) returns,
\* CHG_TEST is mode and FET_EN is 0, and the CHG FET command (0x1F) was sent
\* at most once and only if CHG_TEST differed from mode before the call;
\* likewise manufactoryDischargeFet with DSG_TEST and DSG FET (0x20).
C26_FetIntoMode ==
  /\ Done("manufactoryChargeFet") =>
       /\ mfg.CHG_TEST = FetBit(arg.mode)
       /\ mfg.FET_EN = 0
       /\ Count(31) <= 1
       /\ Sent(31) => devBefore.mfg.CHG_TEST # FetBit(arg.mode)
  /\ Done("manufactoryDischargeFet") =>
       /\ mfg.DSG_TEST = FetBit(arg.mode)
       /\ mfg.FET_EN = 0
       /\ Count(32) <= 1
       /\ Sent(32) => devBefore.mfg.DSG_TEST # FetBit(arg.mode)

---------------------------------------------------------------------------
(* dfReadAllData, one loop iteration per step *)

\* What the device answers during the dump: its status for the sealed check,
\* the block at a or nothing for the read.
ScanStatus == {DevStatus(sec, 0)}
ScanBlock(a) == {DeviceFrame(a, Fill(a % 256, DATA_SIZE)), Zeros(RESPONSE_MAX_SIZE)}

ReadAll_Enter ==
  /\ pc = "idle"
  /\ pc' = "scan"
  /\ op' = "dfReadAllData"
  /\ scanAddr' = DF_ADDR_MIN
  /\ scanned' = 0
  /\ UNCHANGED <<arg, resp, stack, bus, ret, out, outBefore, outLen, lenBefore,
                 mode, ovf, wire, log, twin, sec, flash, lastWrite, mfg,
                 devBefore, SILENCE, DEBUG>>

ReadAll_Read ==
  /\ pc = "scan"
  /\ dfReadAllData_Continue(scanAddr)
  /\ \E r1 \in ScanStatus : \E r2 \in ScanBlock(scanAddr) :
     \E g \in GarbageFor(r1, 0) :
       \E r \in {dfReadBytes(scanAddr, Zeros(DATA_SIZE), DATA_SIZE, r1, r2, 0, g)} :
         Observe("dfReadAllData", [cmd |-> scanAddr, data |-> <<>>, len |-> DATA_SIZE],
                 r.resp, 0, r.bus, 0, r.retval, Zeros(DATA_SIZE), 0, 0, r.mode,
                 r.ovf, NoFault, <<>>, NoTwin)
  /\ pc' = "scan"
  /\ scanAddr' = dfReadAllData_Step(scanAddr)
  /\ scanned' = scanned + 1
  /\ UNCHANGED <<sec, flash, lastWrite, mfg, devBefore, SILENCE, DEBUG>>

ReadAll_Return ==
  /\ pc = "scan"
  /\ ~dfReadAllData_Continue(scanAddr)
  /\ pc' = "done"
  /\ UNCHANGED <<op, arg, resp, stack, bus, ret, out, outBefore, outLen,
                 lenBefore, mode, ovf, wire, log, twin, sec, flash, lastWrite,
                 mfg, devBefore, SILENCE, DEBUG, scanAddr, scanned>>

NextReadAll ==
  \/ ReadAll_Enter
  \/ ReadAll_Read
  \/ ReadAll_Return
  \/ Loop

\* The sketch runs the loop to its end: a step that can be taken is taken.
SpecReadAll == Init /\ [][NextReadAll]_vars /\ WF_vars(NextReadAll)

\* Blocks in [DF_ADDR::MIN, DF_ADDR::MAX].
Blocks == (DF_ADDR_MAX - DF_ADDR_MIN + 1) \div DATA_SIZE

ReadAllCovers ==
  /\ scanned <= Blocks
  /\ pc = "scan" => scanAddr = DF_ADDR_MIN + DATA_SIZE * scanned
  /\ (pc = "scan" /\ scanned > 0) =>
       /\ arg.cmd = DF_ADDR_MIN + DATA_SIZE * (scanned - 1)
       /\ arg.cmd + arg.len - 1 <= DF_ADDR_MAX
       /\ _isAddrValid(arg.cmd)
       /\ isAllowedRequestPayloadSize(arg.len)
       /\ bus # <<>>
  /\ Done("dfReadAllData") =>
       scanned = Blocks /\ arg.cmd = DF_ADDR_MAX - DATA_SIZE + 1

\* C27: dfReadAllData terminates; addr takes 0x4000, 0x4020, ..., 0x5FE0 in
\* ascending order, each once (256 iterations), without wrapping; every
\* dfReadBytes call passes the address and length gates, so the region is
\* covered in 32-byte blocks without overlap or gap.
C27_ReadAllCovers == [](ReadAllCovers) /\ ((pc = "scan") ~> Done("dfReadAllData"))

C27_Witness ==
  /\ Done("dfReadAllData")
  /\ scanned = 256
  /\ arg.cmd = 24544
  /\ out = Fill(224, DATA_SIZE)

\* The data bytes of the data-flash writes to address a in the traffic io.
FlashWrites(io, a) ==
  {io[k].bytes[4] : k \in {j \in 1..Len(io) :
     /\ io[j].t = "write"
     /\ Len(io[j].bytes) = 4
     /\ SubSeq(io[j].bytes, 1, 3) = sendCommand(ALT_MANUFACTURER_ACCESS, a)}}

\* C28: whenever dfWriteFetOptionsCHGFET(v) issues a data-flash write, the
\* byte written is the device's current FET Options value with bit 5 replaced
\* by v and the other bits kept, also when the preceding read fails validation.
C28_OnlyBit5 ==
  Done("dfWriteFetOptionsCHGFET") =>
    \A b \in FlashWrites(bus, FET_OPTIONS) :
      b = bitWrite(outBefore[1], CHGFET_n, arg.data[1])

\* C29: when the OperationStatus block read of dfWriteBytes' sealed check
\* fails validation, the call writes neither address and payload to 0x3E nor
\* anything to 0x60.
C29_NoWriteUnread ==
  Done("dfWriteBytes") /\ Len(resp) = 1 /\ ~validate(resp[1], stack) =>
    \A k \in 1..Len(bus) :
      bus[k].t = "write" =>
        /\ bus[k].bytes[1] # MAC_DATA_CHECKSUM
        /\ ~(bus[k].bytes[1] = ALT_MANUFACTURER_ACCESS /\ Len(bus[k].bytes) > 3)

====
